---- MODULE Spec2Model ----
(***************************************************************************)
(* Model of the MCMP receiver of mod_manager (mod_proxy_cluster): the      *)
(* shared node / host / context / balancer tables, the version counter,    *)
(* the body parser and the CONFIG and *-APP command processors.            *)
(*                                                                         *)
(* Characters are ASCII codes and C strings are sequences of non-zero      *)
(* codes, so that percent-decoding, case folding and atoi are computed as  *)
(* the C code computes them.                                               *)
(***************************************************************************)
EXTENDS Integers, Sequences, FiniteSets, TLC

VARIABLES
    nodes,      \* nodestatsmem: slot id -> node row (used flag + nodemess_t fields)
    hosts,      \* hoststatsmem: slot id -> host row
    contexts,   \* contextstatsmem: slot id -> context row
    balancers,  \* balancerstatsmem: the set of balancer names stored
    workers,    \* the proxy's worker table: index -> worker tuple
    version,    \* version_data.counter
    last,       \* the response of the last request handled (history)
    call,       \* a function or handler called on its own: argument and result
    mconf,      \* mod_manager_config: nonce, allow_cmd and tableversion
    proc,       \* the handlers at work: where each one is in its processor
    mutex       \* node_mutex and context_mutex: 1 when free, 0 when taken

vars == <<nodes, hosts, contexts, balancers, workers, version, last, call, mconf, proc, mutex>>

\* what the handlers that run one at a time leave alone
conf == <<mconf, proc, mutex>>

(***************************************************************************)
(* Bounds of the model.                                                    *)
(***************************************************************************)
\* Maxnode, Maxhost, Maxcontext: manager_init raises Maxhost to Maxnode and
\* Maxcontext to Maxhost, so MaxNode <= MaxHost <= MaxContext.  MaxVersion
\* caps the version counter: no request is taken once it is reached.
MaxNode == 2
MaxHost == 2
MaxContext == 2
MaxBalancer == 1
MaxVersion == 3
MaxFailoverVersion == 6

(***************************************************************************)
(* Program constants.                                                      *)
(***************************************************************************)
TYPESYNTAX == 1
TYPEMEM == 2
\* context.h status values, by the names context_status_to_string prints
ENABLED_ST == "ENABLED"
DISABLED == "DISABLED"
STOPPED == "STOPPED"
REMOVE == "REMOVED"

\* a NULL char pointer (no C string holds a negative character)
NULL == <<-1>>
\* a NULL errstring: the request succeeded
NoError == "NoError"

(***************************************************************************)
(* C strings.                                                              *)
(***************************************************************************)
sJVMRoute == <<74,86,77,82,111,117,116,101>>      \* "JVMRoute"
sHost == <<72,111,115,116>>                       \* "Host"
sPort == <<80,111,114,116>>                       \* "Port"
sSmax == <<115,109,97,120>>                       \* "smax"
sAlias == <<65,108,105,97,115>>                   \* "Alias"
sContext == <<67,111,110,116,101,120,116>>        \* "Context"
sDomain == <<68,111,109,97,105,110>>              \* "Domain"
sBalancer == <<66,97,108,97,110,99,101,114>>      \* "Balancer"
sREMOVED == <<82,69,77,79,86,69,68>>              \* "REMOVED"
sMycluster == <<109,121,99,108,117,115,116,101,114>>  \* "mycluster"
sLocalhost == <<108,111,99,97,108,104,111,115,116>>   \* "localhost"
s8009 == <<56,48,48,57>>                          \* "8009"
sAjp == <<97,106,112>>                            \* "ajp"
sSlash == <<47>>                                  \* "/"
sLoad == <<76,111,97,100>>                        \* "Load"
sScheme == <<83,99,104,101,109,101>>              \* "Scheme"
sNonce == <<110,111,110,99,101>>                  \* "nonce"
sCmd == <<67,109,100>>                            \* "Cmd"
sRange == <<82,97,110,103,101>>                   \* "Range"
sENABLE_APP == <<69,78,65,66,76,69,45,65,80,80>>  \* "ENABLE-APP"
sDISABLE_APP == <<68,73,83,65,66,76,69,45,65,80,80>>  \* "DISABLE-APP"
sSTOP_APP == <<83,84,79,80,45,65,80,80>>          \* "STOP-APP"
sREMOVE_APP == <<82,69,77,79,86,69,45,65,80,80>>  \* "REMOVE-APP"
sDUMP == <<68,85,77,80>>                          \* "DUMP"
sINFO == <<73,78,70,79>>                          \* "INFO"
sNODE == <<78,79,68,69>>                          \* "NODE"
sDOMAIN == <<68,79,77,65,73,78>>                  \* "DOMAIN"
sCONTEXT == <<67,79,78,84,69,88,84>>              \* "CONTEXT"

chAmp == 38      \* '&'
chEq == 61       \* '='
chPct == 37      \* '%'
chComma == 44    \* ','

\* strlen-terminated view of a character array: the prefix before the first NUL
RECURSIVE CStr(_)
CStr(a) ==
    IF a = <<>> \/ Head(a) = 0 THEN <<>> ELSE <<Head(a)>> \o CStr(Tail(a))

apr_tolower(c) == IF c >= 65 /\ c <= 90 THEN c + 32 ELSE c
apr_isdigit(c) == c >= 48 /\ c <= 57
apr_isupper(c) == c >= 65 /\ c <= 90
apr_isxdigit(c) == apr_isdigit(c) \/ (c >= 65 /\ c <= 70) \/ (c >= 97 /\ c <= 102)

LowerStr(s) == [i \in 1..Len(s) |-> apr_tolower(s[i])]

\* strcasecmp(a, b) == 0
strcaseeq(a, b) == LowerStr(a) = LowerStr(b)

\* atoi on the values the senders use: optional '-', then leading digits
RECURSIVE atoiDigits(_, _)
atoiDigits(s, acc) ==
    IF s = <<>> \/ ~apr_isdigit(Head(s)) THEN acc
    ELSE atoiDigits(Tail(s), acc * 10 + (Head(s) - 48))

atoi(s) ==
    IF s # <<>> /\ Head(s) = 45 THEN 0 - atoiDigits(Tail(s), 0)
    ELSE atoiDigits(s, 0)

(***************************************************************************)
(* The MCMP parser: process_buff and decodeenc.                            *)
(***************************************************************************)
\* x points at two hex digits
mod_manager_hex2c(x) ==
    LET d(ch) == IF apr_isdigit(ch) THEN ch - 48
                 ELSE IF apr_isupper(ch) THEN ch - (65 - 10)
                 ELSE ch - (97 - 10)
    IN  d(x[1]) * 16 + d(x[2])

\* the character at 1-based position i of a NUL-terminated token
CharAt(tok, i) == IF i <= Len(tok) THEN tok[i] ELSE 0

\* The inner for loop of decodeenc on one token: i reads, out collects what
\* is written at j.  Returns [ok |-> FALSE] on a forbidden character.
RECURSIVE decodeToken(_, _, _)
decodeToken(tok, i, out) ==
    IF CharAt(tok, i) = 0 THEN [ok |-> TRUE, tok |-> out]
    ELSE
        LET esc == tok[i] = chPct /\ apr_isxdigit(CharAt(tok, i + 1))
                                  /\ apr_isxdigit(CharAt(tok, i + 2))
            ch == IF esc THEN mod_manager_hex2c(<<tok[i + 1], tok[i + 2]>>) % 256
                  ELSE tok[i]
            ni == IF esc THEN i + 3 ELSE i + 1
        IN  IF ch = 60 \/ ch = 62 \/ ch = 34 \/ ch = 39 THEN [ok |-> FALSE, tok |-> out]
            ELSE IF ch = 13 \/ ch = 10 THEN [ok |-> FALSE, tok |-> out]
            ELSE decodeToken(tok, ni, Append(out, ch))

\* "special case for no characters": decodeenc returns APR_SUCCESS at the
\* first empty token and leaves the tokens after it as they are
decodeStopsAt(ptr, val) == ptr[val] = <<>>

\* decodeenc: returns [ok, ptr]; ptr holds the tokens as C strings
RECURSIVE decodeenc(_, _)
decodeenc(ptr, val) ==
    IF val > Len(ptr) THEN [ok |-> TRUE, ptr |-> ptr]
    ELSE IF decodeStopsAt(ptr, val) THEN [ok |-> TRUE, ptr |-> ptr]
    ELSE
        LET d == decodeToken(ptr[val], 1, <<>>)
        IN  IF ~d.ok THEN [ok |-> FALSE, ptr |-> ptr]
            ELSE decodeenc([ptr EXCEPT ![val] = CStr(d.tok)], val + 1)

\* The second loop of process_buff: cut buff at every '&' and '='
RECURSIVE splitBuff(_, _, _)
splitBuff(buff, cur, acc) ==
    IF buff = <<>> THEN Append(acc, cur)
    ELSE IF Head(buff) = chAmp \/ Head(buff) = chEq
         THEN splitBuff(Tail(buff), <<>>, Append(acc, cur))
         ELSE splitBuff(Tail(buff), Append(cur, Head(buff)), acc)

\* process_buff: ok = FALSE stands for the NULL returned when decodeenc
\* fails; ptr is the token array without its terminating NULL entry
process_buff(buff) == decodeenc(splitBuff(buff, <<>>, <<>>), 1)

(***************************************************************************)
(* The shared tables.                                                      *)
(***************************************************************************)
NodeIds == 1..MaxNode
HostIds == 1..MaxHost
ContextIds == 1..MaxContext

\* a slot that is not in use
NoNode == [used |-> FALSE, JVMRoute |-> <<>>, balancer |-> <<>>, Domain |-> <<>>,
           Host |-> <<>>, Port |-> <<>>, Type |-> <<>>, reversed |-> 0,
           remove |-> 0, smax |-> 0, ttl |-> 0]
NoHost == [used |-> FALSE, node |-> 0, vhost |-> 0, host |-> <<>>]
NoContext == [used |-> FALSE, node |-> 0, vhost |-> 0, context |-> <<>>, status |-> "FREE"]
NoWorker == [used |-> FALSE, balancer |-> <<>>, Type |-> <<>>, Host |-> <<>>, Port |-> <<>>]

\* F(v), with v computed once
With(v, F(_)) == CHOOSE r \in {F(x) : x \in {v}} : TRUE

\* The tables a request works on, as one record
Tables == [nodes |-> nodes, hosts |-> hosts, contexts |-> contexts,
           balancers |-> balancers, workers |-> workers, version |-> version]

MinOf(S) == CHOOSE x \in S : \A y \in S : x <= y

\* get_ids_used_node / _host / _context
UsedNodes(T) == {i \in NodeIds : T.nodes[i].used}
UsedHosts(T) == {i \in HostIds : T.hosts[i].used}
UsedContexts(T) == {i \in ContextIds : T.contexts[i].used}

\* inc_version_node that leaves the counter alone
inc_version_node_skip(T) == T

\* inc_version_node: the counter of version_node_mem
inc_version_node(T) == [T EXCEPT !.version = @ + 1]

\* a lookup by JVMRoute that never matches a row
find_node_miss(T, route) == 0

\* find_node / read_node with mess.id == -1: the first used row with the
\* JVMRoute; 0 stands for NULL
find_node(T, route) ==
    LET m == {i \in UsedNodes(T) : T.nodes[i].JVMRoute = route}
    IN  IF m = {} THEN 0 ELSE MinOf(m)

\* read_node_by_id: 0 stands for NULL
read_node_by_id(T, id) == IF id \in UsedNodes(T) THEN id ELSE 0

\* find_node_byhostport that does not compare the ports
find_node_byhostport_anyport(T, host, port) ==
    LET m == {i \in UsedNodes(T) : T.nodes[i].Host = host}
    IN  IF m = {} THEN 0 ELSE MinOf(m)

find_node_byhostport(T, host, port) ==
    LET m == {i \in UsedNodes(T) : T.nodes[i].Host = host /\ T.nodes[i].Port = port}
    IN  IF m = {} THEN 0 ELSE MinOf(m)

\* insert_update_node(s, node, &id, clean): a row with the JVMRoute is
\* updated in place; otherwise slot *id is taken, or a free slot when *id
\* is -1.  Returns the tables and the id stored, ok = FALSE for a full table.
insert_update_node(T, node, id) ==
    LET ex == find_node(T, node.JVMRoute)
        free == NodeIds \ UsedNodes(T)
        row == [node EXCEPT !.used = TRUE]
    IN  IF ex # 0
        THEN [ok |-> TRUE, id |-> ex, T |-> [T EXCEPT !.nodes[ex] = row]]
        ELSE IF id # -1
        THEN [ok |-> TRUE, id |-> id, T |-> [T EXCEPT !.nodes[id] = row]]
        ELSE IF free = {} THEN [ok |-> FALSE, id |-> -1, T |-> T]
        ELSE [ok |-> TRUE, id |-> MinOf(free),
              T |-> [T EXCEPT !.nodes[MinOf(free)] = row]]

\* loc_remove_node that leaves the row in the table
loc_remove_node_keep(T, id) == T

\* remove_node
loc_remove_node(T, id) == [T EXCEPT !.nodes[id] = NoNode]

\* read_host with id == 0: the row of (node, host); 0 stands for NULL
read_host(T, node, host) ==
    LET m == {i \in UsedHosts(T) : T.hosts[i].node = node /\ T.hosts[i].host = host}
    IN  IF m = {} THEN 0 ELSE MinOf(m)

insert_update_host(T, info) ==
    LET ex == read_host(T, info.node, info.host)
        free == HostIds \ UsedHosts(T)
        row == [used |-> TRUE, node |-> info.node, vhost |-> info.vhost, host |-> info.host]
    IN  IF ex # 0 THEN [ok |-> TRUE, T |-> [T EXCEPT !.hosts[ex] = row]]
        ELSE IF free = {} THEN [ok |-> FALSE, T |-> T]
        ELSE [ok |-> TRUE, T |-> [T EXCEPT !.hosts[MinOf(free)] = row]]

remove_host(T, id) == [T EXCEPT !.hosts[id] = NoHost]

\* read_context with id == 0: the row of (node, vhost, context); 0 is NULL
read_context(T, node, vhost, context) ==
    LET m == {i \in UsedContexts(T) : /\ T.contexts[i].node = node
                                      /\ T.contexts[i].vhost = vhost
                                      /\ T.contexts[i].context = context}
    IN  IF m = {} THEN 0 ELSE MinOf(m)

insert_update_context(T, info) ==
    LET ex == read_context(T, info.node, info.vhost, info.context)
        free == ContextIds \ UsedContexts(T)
        row == [used |-> TRUE, node |-> info.node, vhost |-> info.vhost,
                context |-> info.context, status |-> info.status]
    IN  IF ex # 0 THEN [ok |-> TRUE, T |-> [T EXCEPT !.contexts[ex].status = info.status]]
        ELSE IF free = {} THEN [ok |-> FALSE, T |-> T]
        ELSE [ok |-> TRUE, T |-> [T EXCEPT !.contexts[MinOf(free)] = row]]

remove_context(T, id) == [T EXCEPT !.contexts[id] = NoContext]

\* read_remove_context that stores the status it is given
read_remove_context_store(T, info) == insert_update_context(T, info).T

read_remove_context(T, info) ==
    LET ex == read_context(T, info.node, info.vhost, info.context)
    IN  IF ex # 0 THEN remove_context(T, ex) ELSE T

insert_update_balancer(T, name) ==
    IF name \in T.balancers THEN [ok |-> TRUE, T |-> T]
    ELSE IF Cardinality(T.balancers) >= MaxBalancer THEN [ok |-> FALSE, T |-> T]
    ELSE [ok |-> TRUE, T |-> [T EXCEPT !.balancers = @ \cup {name}]]

\* loc_remove_host_context: drop every host and every context of the node
loc_remove_host_context(T, node) ==
    [T EXCEPT !.hosts = [i \in HostIds |-> IF @[i].used /\ @[i].node = node
                                            THEN NoHost ELSE @[i]],
              !.contexts = [i \in ContextIds |-> IF @[i].used /\ @[i].node = node
                                                  THEN NoContext ELSE @[i]]]

\* mark_node_removed that sets the flag and keeps the JVMRoute
mark_node_removed_flagonly(T, id) ==
    IF id = 0 THEN T ELSE [T EXCEPT !.nodes[id].remove = 1]

\* mark_node_removed (updatetime and num_remove_check are not modelled)
mark_node_removed(T, id) ==
    IF id = 0 THEN T
    ELSE [T EXCEPT !.nodes[id].JVMRoute = sREMOVED, !.nodes[id].remove = 1]

\* split a comma list as the loops of insert_update_hosts / _contexts do
RECURSIVE splitComma(_, _, _)
splitComma(str, cur, acc) ==
    IF str = <<>> THEN Append(acc, cur)
    ELSE IF Head(str) = chComma THEN splitComma(Tail(str), <<>>, Append(acc, cur))
    ELSE splitComma(Tail(str), Append(cur, Head(str)), acc)

RECURSIVE insertHostList(_, _, _, _)
insertHostList(T, list, node, vhost) ==
    IF list = <<>> THEN [ok |-> TRUE, T |-> T]
    ELSE LET r == insert_update_host(T, [node |-> node, vhost |-> vhost, host |-> Head(list)])
         IN  IF ~r.ok THEN r ELSE insertHostList(r.T, Tail(list), node, vhost)

\* insert_update_hosts: str == NULL inserts the empty alias
insert_update_hosts(T, str, node, vhost) ==
    insertHostList(T, splitComma(IF str = NULL THEN <<>> ELSE str, <<>>, <<>>), node, vhost)

RECURSIVE insertContextList(_, _, _, _, _)
insertContextList(T, list, node, vhost, status) ==
    IF list = <<>> THEN [ok |-> TRUE, T |-> T]
    ELSE LET info == [node |-> node, vhost |-> vhost, context |-> Head(list), status |-> status]
         IN  IF status # REMOVE
             THEN LET r == insert_update_context(T, info)
                  IN  IF ~r.ok THEN r
                      ELSE insertContextList(r.T, Tail(list), node, vhost, status)
             ELSE insertContextList(read_remove_context(T, info), Tail(list), node, vhost, status)

\* insert_update_contexts that stops after the first context of the list
insert_update_contexts_first(T, str, node, vhost, status) ==
    insertContextList(T, <<splitComma(IF str = NULL THEN sSlash ELSE str, <<>>, <<>>)[1]>>,
                      node, vhost, status)

\* insert_update_contexts: str == NULL stands for the context "/"
insert_update_contexts(T, str, node, vhost, status) ==
    insertContextList(T, splitComma(IF str = NULL THEN sSlash ELSE str, <<>>, <<>>),
                      node, vhost, status)

is_same_node(a, b) ==
    /\ a.balancer = b.balancer
    /\ a.Host = b.Host
    /\ a.Port = b.Port
    /\ a.Type = b.Type
    /\ a.reversed = b.reversed
    /\ a.smax = b.smax
    /\ a.ttl = b.ttl

\* is_same_worker_existing: the loop returns at the first row that is the
\* same worker
is_same_worker_existing(T, node) ==
    LET m == {i \in UsedNodes(T) : is_same_node(T.nodes[i], node)}
        ou == T.nodes[MinOf(m)]
    IN  IF m = {} THEN FALSE
        ELSE IF ou.JVMRoute = node.JVMRoute THEN FALSE
        ELSE IF ou.remove # 0 /\ ou.JVMRoute = sREMOVED THEN FALSE
        ELSE TRUE

(***************************************************************************)
(* The worker reconciler, as CONFIG consumes it.                           *)
(***************************************************************************)
WorkerOf(node) == [used |-> TRUE, balancer |-> node.balancer, Type |-> node.Type,
                   Host |-> node.Host, Port |-> node.Port]

\* proxy_node_getid: the index of a worker of (balancer, scheme, host, port), or -1
proxy_node_getid(T, nodeinfo) ==
    LET m == {i \in NodeIds : T.workers[i] = WorkerOf(nodeinfo)}
    IN  IF m = {} THEN -1 ELSE MinOf(m)

\* proxy_node_get_free_id: an index no worker and no node uses, or -1
proxy_node_get_free_id(T, node_table_size) ==
    LET m == {i \in 1..node_table_size : ~T.workers[i].used /\ ~T.nodes[i].used}
    IN  IF m = {} THEN -1 ELSE MinOf(m)

\* reenable_proxy_worker: the worker record takes the endpoint of nodeinfo
reenable_proxy_worker(T, id, nodeinfo) == [T EXCEPT !.workers[id] = WorkerOf(nodeinfo)]

(***************************************************************************)
(* CONFIG.                                                                 *)
(***************************************************************************)
\* a response: errstring (NULL for success) and *errtype
Resp(mess, errtype) == [mess |-> mess, errtype |-> errtype]

\* process_config_node_defaults (mconf->balancername is not set)
process_config_node_defaults ==
    [used |-> FALSE, JVMRoute |-> <<>>, balancer |-> sMycluster, Domain |-> <<>>,
     Host |-> sLocalhost, Port |-> s8009, Type |-> sAjp, reversed |-> 0,
     remove |-> 0, smax |-> -1, ttl |-> 60 * 1000000]

\* the keys process_config_balancer and process_config_node read the value of
ConfigValueKeys == {sBalancer, sJVMRoute, sDomain, sHost, sPort,
                    <<84,121,112,101>>,                 \* "Type"
                    <<82,101,118,101,114,115,101,100>>, \* "Reversed"
                    sSmax, <<116,116,108>>}             \* "ttl"

KeyIs(key, name) == strcaseeq(key, name)

\* process_config_balancer and process_config_node on one key/value pair
\* (the field-size checks never fire on the values of this model)
process_config_node(key, val, nodeinfo) ==
    IF KeyIs(key, sBalancer) THEN [nodeinfo EXCEPT !.balancer = LowerStr(val)]
    ELSE IF KeyIs(key, sJVMRoute) THEN [nodeinfo EXCEPT !.JVMRoute = val]
    ELSE IF KeyIs(key, sDomain) THEN [nodeinfo EXCEPT !.Domain = val]
    ELSE IF KeyIs(key, sHost) THEN [nodeinfo EXCEPT !.Host = val]
    ELSE IF KeyIs(key, sPort) THEN [nodeinfo EXCEPT !.Port = val]
    ELSE IF KeyIs(key, <<84,121,112,101>>) THEN [nodeinfo EXCEPT !.Type = val]
    ELSE IF KeyIs(key, <<82,101,118,101,114,115,101,100>>)
         THEN [nodeinfo EXCEPT !.reversed = IF strcaseeq(val, <<121,101,115>>) THEN 1 ELSE @]
    ELSE IF KeyIs(key, sSmax) THEN [nodeinfo EXCEPT !.smax = atoi(val)]
    ELSE IF KeyIs(key, <<116,116,108>>) THEN [nodeinfo EXCEPT !.ttl = atoi(val) * 1000000]
    ELSE nodeinfo

\* The while (ptr[i]) loop of process_config.  P is the state of the loop:
\* nodeinfo, the cluster_host list (phost is its last element) and the
\* error returned, if any.  ptr[Len(ptr) + 1] is the NULL that ends the
\* array; a read one past it is outside the array and oob says what it
\* finds there.
RECURSIVE config_loop(_, _, _, _)
config_loop(ptr, i, P, oob) ==
    IF i = Len(ptr) + 1 THEN P
    ELSE IF i > Len(ptr) + 1
    THEN IF oob = "null" THEN P ELSE [P EXCEPT !.resp = Resp("CRASH", 0)]
    ELSE
        LET key == ptr[i]
            val == IF i + 1 <= Len(ptr) THEN ptr[i + 1] ELSE NULL
            phost == P.vhost[Len(P.vhost)]
            n == Len(P.vhost)
        IN  IF val = NULL /\ \E k \in ConfigValueKeys : KeyIs(key, k)
            THEN [P EXCEPT !.resp = Resp("CRASH", 0)]
            ELSE
            LET P1 == IF val = NULL THEN P
                      ELSE [P EXCEPT !.nodeinfo = process_config_node(key, val, @)]
            IN  IF KeyIs(key, sAlias)
                THEN IF phost.host # NULL /\ phost.context = NULL
                     THEN [P1 EXCEPT !.resp = Resp("SALIBAD", TYPESYNTAX)]
                     ELSE IF phost.host # NULL
                     THEN config_loop(ptr, i + 2,
                              [P1 EXCEPT !.vhost = Append(@, [host |-> val, context |-> NULL])], oob)
                     ELSE config_loop(ptr, i + 2, [P1 EXCEPT !.vhost[n].host = val], oob)
                ELSE IF KeyIs(key, sContext)
                THEN IF phost.context # NULL
                     THEN [P1 EXCEPT !.resp = Resp("SCONBAD", TYPESYNTAX)]
                     ELSE config_loop(ptr, i + 2, [P1 EXCEPT !.vhost[n].context = val], oob)
                ELSE config_loop(ptr, i + 2, P1, oob)

\* the Alias/Context insertion loop without vid++
RECURSIVE config_vhosts_samevid(_, _, _, _)
config_vhosts_samevid(T, vhost, id, vid) ==
    IF vhost = <<>> THEN [T |-> T, resp |-> Resp(NoError, 0)]
    ELSE
        LET h == insert_update_hosts(T, Head(vhost).host, id, vid)
        IN  IF ~h.ok THEN [T |-> h.T, resp |-> Resp("MHOSTUI", 0)]
            ELSE LET c == insert_update_contexts(h.T, Head(vhost).context, id, vid, STOPPED)
                 IN  IF ~c.ok THEN [T |-> c.T, resp |-> Resp("MCONTUI", 0)]
                     ELSE config_vhosts_samevid(c.T, Tail(vhost), id, vid)

\* The Alias/Context insertion loop at the end of process_config
RECURSIVE config_vhosts(_, _, _, _)
config_vhosts(T, vhost, id, vid) ==
    IF vhost = <<>> THEN [T |-> T, resp |-> Resp(NoError, 0)]
    ELSE
        LET Contexts(c) ==
                IF ~c.ok THEN [T |-> c.T, resp |-> Resp("MCONTUI", 0)]
                ELSE config_vhosts(c.T, Tail(vhost), id, vid + 1)
            Hosts(h) ==
                IF ~h.ok THEN [T |-> h.T, resp |-> Resp("MHOSTUI", 0)]
                ELSE With(insert_update_contexts(h.T, Head(vhost).context, id, vid, STOPPED),
                          Contexts)
        IN  With(insert_update_hosts(T, Head(vhost).host, id, vid), Hosts)

\* process_config that increments the version before it knows that the
\* node was inserted
config_insert_bumpfirst(T, nodeinfo, vhost, id0, clean, removed) ==
    LET T0 == inc_version_node(T)
        id1 == IF id0 = -1 THEN proxy_node_get_free_id(T0, MaxNode) ELSE id0
        ins == insert_update_node(T0, nodeinfo, id1)
    IN  IF ~ins.ok
        THEN [T |-> IF removed # 0 THEN mark_node_removed(T0, read_node_by_id(T0, removed)) ELSE T0,
              resp |-> Resp("MNODEUI", TYPEMEM)]
        ELSE
            LET T1 == IF clean = 0 THEN reenable_proxy_worker(ins.T, ins.id, nodeinfo) ELSE ins.T
            IN  IF vhost[1].host = NULL /\ vhost[1].context = NULL
                THEN [T |-> T1, resp |-> Resp(NoError, 0)]
                ELSE config_vhosts(T1, vhost, ins.id, 1)

\* process_config from the insert of the node on: insert_update_node, the
\* version bump and the Alias/Context loop.  removed is the slot saved for
\* the case that the insert fails, 0 when none.
config_insert(T, nodeinfo, vhost, id0, clean, removed) ==
    LET id1 == IF id0 = -1 THEN proxy_node_get_free_id(T, MaxNode) ELSE id0
        ins == insert_update_node(T, nodeinfo, id1)
    IN  IF ~ins.ok
        THEN [T |-> IF removed # 0 THEN mark_node_removed(T, read_node_by_id(T, removed)) ELSE T,
              resp |-> Resp("MNODEUI", TYPEMEM)]
        ELSE
            LET T1 == IF clean = 0 THEN reenable_proxy_worker(ins.T, ins.id, nodeinfo) ELSE ins.T
                T2 == inc_version_node(T1)
            IN  IF vhost[1].host = NULL /\ vhost[1].context = NULL
                THEN [T |-> T2, resp |-> Resp(NoError, 0)]
                ELSE config_vhosts(T2, vhost, ins.id, 1)

\* process_config from "Check for corresponding proxy_worker" to the insert:
\* the id, clean and removed the branches leave for insert_update_node; err
\* stands for the return of MNODEET.  node is the row read_node found for
\* the JVMRoute, 0 for NULL
config_slot(T, nodeinfo, node) ==
    LET id == proxy_node_getid(T, nodeinfo)
        Slot(T1, i, clean, removed) ==
            [err |-> FALSE, T |-> T1, id |-> i, clean |-> clean, removed |-> removed]
    IN  IF id # -1
        THEN IF node # 0 /\ node = id
             THEN Slot(T, id, 1, 0)
             ELSE IF node = 0
             THEN LET workernode == read_node_by_id(T, id)
                  IN  IF workernode = 0
                      THEN Slot(T, id, 0, 0)
                      ELSE IF T.nodes[workernode].JVMRoute = sREMOVED
                      THEN Slot([T EXCEPT !.nodes[workernode].JVMRoute = nodeinfo.JVMRoute],
                                id, 0, id)
                      ELSE IF T.nodes[workernode].JVMRoute # <<>>
                              /\ T.nodes[workernode].JVMRoute # nodeinfo.JVMRoute
                      THEN [err |-> TRUE, T |-> T, id |-> id, clean |-> 0, removed |-> 0]
                      ELSE Slot(T, id, 0, id)
             ELSE Slot(T, id, 0, 0)
        ELSE LET workernode == find_node_byhostport(T, nodeinfo.Host, nodeinfo.Port)
             IN  IF workernode # 0
                 THEN IF T.nodes[workernode].JVMRoute = sREMOVED
                      THEN Slot([T EXCEPT !.nodes[workernode].JVMRoute = nodeinfo.JVMRoute,
                                          !.nodes[workernode].remove = 0],
                                workernode, 1, 0)
                      ELSE Slot(T, workernode, 1, 0)
                 ELSE Slot(T, -1, 1, 0)

\* process_config that does not look for the slot of a removed node: a node
\* without a worker goes to a free slot
config_worker_noreuse(T, nodeinfo, vhost, node) ==
    LET id == proxy_node_getid(T, nodeinfo)
    IN  IF id # -1 /\ node # 0 /\ node = id
        THEN config_insert(T, nodeinfo, vhost, id, 1, 0)
        ELSE config_insert(T, nodeinfo, vhost, -1, 1, 0)

\* process_config from "Check for corresponding proxy_worker" on
config_worker(T, nodeinfo, vhost, node) ==
    LET s == config_slot(T, nodeinfo, node)
    IN  IF s.err THEN [T |-> T, resp |-> Resp("MNODEET", TYPEMEM)]
        ELSE config_insert(s.T, nodeinfo, vhost, s.id, s.clean, s.removed)

\* process_config without the check for the worker of another node and
\* without the search for the slot of the worker: the node goes to a free slot
config_locked_noworker(T, nodeinfo, vhost) ==
    LET bal == insert_update_balancer(T, nodeinfo.balancer)
        node == find_node(bal.T, nodeinfo.JVMRoute)
    IN  IF ~bal.ok THEN [T |-> T, resp |-> Resp("MBALAUI", TYPEMEM)]
        ELSE IF node # 0 /\ ~is_same_node(bal.T.nodes[node], nodeinfo)
        THEN [T |-> inc_version_node(loc_remove_host_context(mark_node_removed(bal.T, node), node)),
              resp |-> Resp("MNODERM", TYPEMEM)]
        ELSE config_insert(bal.T, nodeinfo, vhost, -1, 1, 0)

\* The part of process_config that runs with the node lock held
config_locked(T, nodeinfo, vhost) ==
    LET bal == insert_update_balancer(T, nodeinfo.balancer)
        node == find_node(bal.T, nodeinfo.JVMRoute)
    IN  IF ~bal.ok THEN [T |-> T, resp |-> Resp("MBALAUI", TYPEMEM)]
        ELSE IF node # 0 /\ ~is_same_node(bal.T.nodes[node], nodeinfo)
        THEN [T |-> inc_version_node(loc_remove_host_context(mark_node_removed(bal.T, node), node)),
              resp |-> Resp("MNODERM", TYPEMEM)]
        ELSE IF is_same_worker_existing(bal.T, nodeinfo)
        THEN [T |-> bal.T, resp |-> Resp("MNODEET", TYPEMEM)]
        ELSE config_worker(bal.T, nodeinfo, vhost, node)

\* process_config up to the node lock: the parse loop and the JVMRoute check
process_config_parse(ptr, oob) ==
    LET P == config_loop(ptr, 1,
                 [nodeinfo |-> process_config_node_defaults,
                  vhost |-> <<[host |-> NULL, context |-> NULL]>>,
                  resp |-> Resp(NoError, 0)], oob)
    IN  IF P.resp.mess = NoError /\ P.nodeinfo.JVMRoute = <<>>
        THEN [P EXCEPT !.resp = Resp("SROUBAD", TYPESYNTAX)]
        ELSE P

\* the outcome r of a processor together with the JVMRoute it parsed
WithRoute(r, route) == [T |-> r.T, resp |-> r.resp, route |-> route]

\* process_config(r, ptr, &errtype): the tables it leaves, the errstring
\* and the errtype, and the JVMRoute it parsed
process_config(T, P) ==
    IF P.resp.mess # NoError THEN [T |-> T, resp |-> P.resp, route |-> P.nodeinfo.JVMRoute]
    ELSE WithRoute(config_locked(T, P.nodeinfo, P.vhost), P.nodeinfo.JVMRoute)

(***************************************************************************)
(* ENABLE-APP, DISABLE-APP, STOP-APP and REMOVE-APP.                       *)
(***************************************************************************)
\* The while (ptr[i]) loop of process_appl_cmd; P holds nodeinfo.mess.JVMRoute,
\* vhost->host and vhost->context
RECURSIVE appl_loop(_, _, _, _)
appl_loop(ptr, i, P, oob) ==
    IF i = Len(ptr) + 1 THEN P
    ELSE IF i > Len(ptr) + 1
    THEN IF oob = "null" THEN P ELSE [P EXCEPT !.resp = Resp("CRASH", 0)]
    ELSE
        LET key == ptr[i]
            val == IF i + 1 <= Len(ptr) THEN ptr[i + 1] ELSE NULL
        IN  IF KeyIs(key, sJVMRoute)
            THEN IF val = NULL THEN [P EXCEPT !.resp = Resp("CRASH", 0)]
                 ELSE appl_loop(ptr, i + 2, [P EXCEPT !.JVMRoute = val], oob)
            ELSE IF KeyIs(key, sAlias)
            THEN IF P.host # NULL THEN [P EXCEPT !.resp = Resp("SMULALB", TYPESYNTAX)]
                 ELSE IF val = NULL THEN [P EXCEPT !.resp = Resp("CRASH", 0)]
                 ELSE appl_loop(ptr, i + 2, [P EXCEPT !.host = LowerStr(val)], oob)
            ELSE IF KeyIs(key, sContext)
            THEN IF P.context # NULL THEN [P EXCEPT !.resp = Resp("SMULCTB", TYPESYNTAX)]
                 ELSE appl_loop(ptr, i + 2, [P EXCEPT !.context = val], oob)
            ELSE appl_loop(ptr, i + 2, P, oob)

\* process_node_cmd that does not mark the node removed
process_node_cmd_noflag(T, status, node) ==
    LET hs == {h \in UsedHosts(T) : T.hosts[h].node = node}
        hit(c) == /\ T.contexts[c].used
                  /\ \E h \in hs : /\ T.contexts[c].vhost = T.hosts[h].vhost
                                   /\ T.contexts[c].node = T.hosts[h].node
    IN  [T EXCEPT !.contexts = [c \in ContextIds |->
                      IF hit(c)
                      THEN IF status # REMOVE THEN [@[c] EXCEPT !.status = status]
                           ELSE NoContext
                      ELSE @[c]],
                  !.hosts = [h \in HostIds |->
                      IF status = REMOVE /\ h \in hs THEN NoHost ELSE @[h]]]

\* process_node_cmd: the verb applied to every host and context of the node
process_node_cmd(T, status, node) ==
    LET hs == {h \in UsedHosts(T) : T.hosts[h].node = node}
        hit(c) == /\ T.contexts[c].used
                  /\ \E h \in hs : /\ T.contexts[c].vhost = T.hosts[h].vhost
                                   /\ T.contexts[c].node = T.hosts[h].node
        T1 == [T EXCEPT !.contexts = [c \in ContextIds |->
                            IF hit(c)
                            THEN IF status # REMOVE THEN [@[c] EXCEPT !.status = status]
                                 ELSE NoContext
                            ELSE @[c]],
                        !.hosts = [h \in HostIds |->
                            IF status = REMOVE /\ h \in hs THEN NoHost ELSE @[h]]]
    IN  IF status = REMOVE
        THEN insert_update_node([T1 EXCEPT !.nodes[node].remove = 1],
                                [T1.nodes[node] EXCEPT !.remove = 1], node).T
        ELSE T1

\* the first alias of the list: hostinfo.host cut at the first ','
FirstOf(str) == IF str = NULL THEN <<>> ELSE splitComma(str, <<>>, <<>>)[1]

\* a vhost id that is always 1
first_vhost_id_one(T, node) == 1

\* process_appl_cmd, "Find the first available vhost id": one more than the
\* largest vhost id on the host rows of the node
first_vhost_id(T, node) ==
    LET used == {T.hosts[h].vhost : h \in {x \in UsedHosts(T) : T.hosts[x].node = node}}
    IN  (IF used = {} THEN 0 ELSE CHOOSE v \in used : \A w \in used : w <= v) + 1

\* process_appl_cmd in context scope that removes the host rows of the vhost
\* although a context is left on it
appl_context_drophost(T, P, status, node) ==
    LET host0 == read_host(T, node, FirstOf(P.host))
        vid == first_vhost_id(T, node)
        ins == IF host0 = 0 THEN insert_update_hosts(T, P.host, node, vid)
               ELSE [ok |-> TRUE, T |-> T]
        host == IF host0 = 0 THEN read_host(ins.T, node, FirstOf(P.host)) ELSE host0
    IN  IF host0 = 0 /\ status = REMOVE THEN [T |-> T, resp |-> Resp(NoError, 0)]
        ELSE IF ~ins.ok THEN [T |-> ins.T, resp |-> Resp("MHOSTUI", TYPEMEM)]
        ELSE IF host = 0 THEN [T |-> ins.T, resp |-> Resp("MHOSTRD", TYPEMEM)]
        ELSE
            LET hv == ins.T.hosts[host].vhost
                c == insert_update_contexts(ins.T, P.context, node, hv, status)
                left == \E x \in UsedContexts(c.T) :
                            c.T.contexts[x].vhost = hv /\ c.T.contexts[x].node = node
            IN  IF ~c.ok THEN [T |-> c.T, resp |-> Resp("MCONTUI", TYPEMEM)]
                ELSE IF status = REMOVE
                THEN [T |-> [c.T EXCEPT !.hosts = [h \in HostIds |->
                                 IF @[h].used /\ @[h].vhost = hv /\ @[h].node = node
                                 THEN NoHost ELSE @[h]]],
                      resp |-> Resp(NoError, 0)]
                ELSE [T |-> c.T, resp |-> Resp(NoError, 0)]

\* process_appl_cmd in context scope, from "Read the ID of the virtual host"
appl_context(T, P, status, node) ==
    LET host0 == read_host(T, node, FirstOf(P.host))
        vid == first_vhost_id(T, node)
        ins == IF host0 = 0 THEN insert_update_hosts(T, P.host, node, vid)
               ELSE [ok |-> TRUE, T |-> T]
        host == IF host0 = 0 THEN read_host(ins.T, node, FirstOf(P.host)) ELSE host0
    IN  IF host0 = 0 /\ status = REMOVE THEN [T |-> T, resp |-> Resp(NoError, 0)]
        ELSE IF ~ins.ok THEN [T |-> ins.T, resp |-> Resp("MHOSTUI", TYPEMEM)]
        ELSE IF host = 0 THEN [T |-> ins.T, resp |-> Resp("MHOSTRD", TYPEMEM)]
        ELSE
            LET hv == ins.T.hosts[host].vhost
                c == insert_update_contexts(ins.T, P.context, node, hv, status)
                left == \E x \in UsedContexts(c.T) :
                            c.T.contexts[x].vhost = hv /\ c.T.contexts[x].node = node
            IN  IF ~c.ok THEN [T |-> c.T, resp |-> Resp("MCONTUI", TYPEMEM)]
                ELSE IF status = REMOVE /\ ~left
                THEN [T |-> [c.T EXCEPT !.hosts = [h \in HostIds |->
                                 IF @[h].used /\ @[h].vhost = hv /\ @[h].node = node
                                 THEN NoHost ELSE @[h]]],
                      resp |-> Resp(NoError, 0)]
                ELSE [T |-> c.T, resp |-> Resp(NoError, 0)]

\* process_appl_cmd up to the node lock: the parse loop and the checks for
\* JVMRoute, Alias and Context
process_appl_parse(ptr, oob) ==
    LET P == appl_loop(ptr, 1, [JVMRoute |-> <<>>, host |-> NULL, context |-> NULL,
                                resp |-> Resp(NoError, 0)], oob)
    IN  IF P.resp.mess # NoError THEN P
        ELSE IF P.JVMRoute = <<>> THEN [P EXCEPT !.resp = Resp("SROUBAD", TYPESYNTAX)]
        ELSE IF P.context = NULL /\ P.host # NULL
        THEN [P EXCEPT !.resp = Resp("SALIBAD", TYPESYNTAX)]
        ELSE IF P.host = NULL /\ P.context # NULL
        THEN [P EXCEPT !.resp = Resp("SCONBAD", TYPESYNTAX)]
        ELSE P

\* process_appl_cmd that increments the version before it reads the node
process_appl_cmd_bumpfirst(T, P, status, global) ==
    LET node == find_node(T, P.JVMRoute)
        T0 == inc_version_node(T)
    IN  IF P.resp.mess # NoError THEN [T |-> T, resp |-> P.resp, route |-> P.JVMRoute]
        ELSE IF node = 0 \/ T.nodes[node].remove # 0
        THEN [T |-> T0, route |-> P.JVMRoute,
              resp |-> IF status = REMOVE THEN Resp(NoError, 0) ELSE Resp("MNODERD", TYPEMEM)]
        ELSE IF global
        THEN [T |-> process_node_cmd(T0, status, node),
              resp |-> Resp(NoError, 0), route |-> P.JVMRoute]
        ELSE WithRoute(appl_context(T0, P, status, node), P.JVMRoute)

\* process_appl_cmd(r, ptr, status, &errtype, global, fromnode)
process_appl_cmd(T, P, status, global) ==
    LET node == find_node(T, P.JVMRoute)
    IN  IF P.resp.mess # NoError THEN [T |-> T, resp |-> P.resp, route |-> P.JVMRoute]
        ELSE IF node = 0 \/ T.nodes[node].remove # 0
        THEN [T |-> T, route |-> P.JVMRoute,
              resp |-> IF status = REMOVE THEN Resp(NoError, 0) ELSE Resp("MNODERD", TYPEMEM)]
        ELSE IF global
        THEN [T |-> process_node_cmd(inc_version_node(T), status, node),
              resp |-> Resp(NoError, 0), route |-> P.JVMRoute]
        ELSE WithRoute(appl_context(inc_version_node(T), P, status, node), P.JVMRoute)

(***************************************************************************)
(* STATUS and PING.                                                        *)
(***************************************************************************)
\* The while (ptr[i]) loop of process_status; P holds nodeinfo.mess.JVMRoute
\* (set is FALSE while the array on the stack has not been written)
RECURSIVE status_loop(_, _, _, _)
status_loop(ptr, i, P, oob) ==
    IF i = Len(ptr) + 1 THEN P
    ELSE IF i > Len(ptr) + 1
    THEN IF oob = "null" THEN P ELSE [P EXCEPT !.resp = Resp("CRASH", 0)]
    ELSE
        LET key == ptr[i]
            val == IF i + 1 <= Len(ptr) THEN ptr[i + 1] ELSE NULL
        IN  IF KeyIs(key, sJVMRoute)
            THEN IF val = NULL THEN [P EXCEPT !.resp = Resp("CRASH", 0)]
                 ELSE status_loop(ptr, i + 2, [P EXCEPT !.JVMRoute = val, !.set = TRUE], oob)
            ELSE IF KeyIs(key, sLoad)
            THEN IF val = NULL THEN [P EXCEPT !.resp = Resp("CRASH", 0)]
                 ELSE status_loop(ptr, i + 2, P, oob)
            ELSE [P EXCEPT !.resp = Resp("SBADFLD", TYPESYNTAX)]

\* process_status(r, ptr, &errtype): it writes no table.  Without a JVMRoute
\* field read_node gets the array as the stack left it; oob says whether
\* that is the route of a node
process_status(T, ptr, oob) ==
    LET P == status_loop(ptr, 1, [JVMRoute |-> <<>>, set |-> FALSE, resp |-> Resp(NoError, 0)], oob)
        node == IF P.set THEN find_node(T, P.JVMRoute)
                ELSE IF oob = "null" \/ UsedNodes(T) = {} THEN 0 ELSE MinOf(UsedNodes(T))
    IN  IF P.resp.mess # NoError THEN [T |-> T, resp |-> P.resp, route |-> P.JVMRoute]
        ELSE IF node = 0 THEN [T |-> T, resp |-> Resp("MNODERD", TYPEMEM), route |-> P.JVMRoute]
        ELSE [T |-> T, resp |-> Resp(NoError, 0), route |-> P.JVMRoute]

\* The while (ptr[i] && ptr[i][0] != '\0') loop of process_ping; P holds
\* nodeinfo.mess.JVMRoute, nodeinfo.mess.id, scheme, host and port
RECURSIVE ping_loop(_, _, _, _)
ping_loop(ptr, i, P, oob) ==
    IF i = Len(ptr) + 1 THEN P
    ELSE IF i > Len(ptr) + 1
    THEN IF oob = "null" THEN P ELSE [P EXCEPT !.resp = Resp("CRASH", 0)]
    ELSE IF ptr[i] = <<>> THEN P
    ELSE
        LET key == ptr[i]
            val == IF i + 1 <= Len(ptr) THEN ptr[i + 1] ELSE NULL
        IN  IF KeyIs(key, sJVMRoute)
            THEN IF val = NULL THEN [P EXCEPT !.resp = Resp("CRASH", 0)]
                 ELSE ping_loop(ptr, i + 2, [P EXCEPT !.JVMRoute = val, !.id = 0], oob)
            ELSE IF KeyIs(key, sScheme)
            THEN ping_loop(ptr, i + 2, [P EXCEPT !.scheme = val], oob)
            ELSE IF KeyIs(key, sHost)
            THEN ping_loop(ptr, i + 2, [P EXCEPT !.host = val], oob)
            ELSE IF KeyIs(key, sPort)
            THEN ping_loop(ptr, i + 2, [P EXCEPT !.port = val], oob)
            ELSE [P EXCEPT !.resp = Resp("SBADFLD", TYPESYNTAX)]

\* process_ping(r, ptr, &errtype): it writes no table
process_ping(T, ptr, oob) ==
    LET P == ping_loop(ptr, 1, [JVMRoute |-> <<>>, id |-> -1, scheme |-> NULL, host |-> NULL,
                                port |-> NULL, resp |-> Resp(NoError, 0)], oob)
    IN  IF P.resp.mess # NoError THEN [T |-> T, resp |-> P.resp, route |-> P.JVMRoute]
        ELSE IF P.id = -1
        THEN IF P.scheme = NULL /\ P.host = NULL /\ P.port = NULL
             THEN [T |-> T, resp |-> Resp(NoError, 0), route |-> P.JVMRoute]
             ELSE IF P.scheme = NULL \/ P.host = NULL \/ P.port = NULL
             THEN [T |-> T, resp |-> Resp("SMISFLD", TYPESYNTAX), route |-> P.JVMRoute]
             ELSE [T |-> T, resp |-> Resp(NoError, 0), route |-> P.JVMRoute]
        ELSE IF find_node(T, P.JVMRoute) = 0
        THEN [T |-> T, resp |-> Resp("MNODERD", TYPEMEM), route |-> P.JVMRoute]
        ELSE [T |-> T, resp |-> Resp(NoError, 0), route |-> P.JVMRoute]

\* manager_handler for STATUS and PING: process_buff, then the processor
manager_handler_probe(T, method, buff, oob) ==
    LET d == process_buff(buff)
    IN  IF ~d.ok THEN [T |-> T, resp |-> Resp("SMESPAR", TYPESYNTAX), route |-> <<>>]
        ELSE IF method = "STATUS" THEN process_status(T, d.ptr, oob)
        ELSE process_ping(T, d.ptr, oob)

\* a dump that counts as a change of the tables
process_dump_inc(T) ==
    [T |-> [T EXCEPT !.version = @ + 1], resp |-> Resp(NoError, 0), route |-> <<>>]

\* process_dump(r, &errtype): the rows of the balancer, node, host and
\* context tables are read with get_ids_used_* and get_* and printed; it
\* returns NULL
process_dump(T) == [T |-> T, resp |-> Resp(NoError, 0), route |-> <<>>]

\* process_info(r, &errtype): the node, host and context rows and the
\* counters of each node (read_shared_by_node) are read and printed
process_info(T) == [T |-> T, resp |-> Resp(NoError, 0), route |-> <<>>]

\* process_version(r, ptr, &errtype): prints the release and the protocol
process_version(T, ptr) == [T |-> T, resp |-> Resp(NoError, 0), route |-> <<>>]

\* manager_handler for DUMP, INFO and VERSION: process_buff, then the
\* processor
manager_handler_report(T, method, buff) ==
    LET d == process_buff(buff)
    IN  IF ~d.ok THEN [T |-> T, resp |-> Resp("SMESPAR", TYPESYNTAX), route |-> <<>>]
        ELSE IF method = "DUMP" THEN process_dump(T)
        ELSE IF method = "INFO" THEN process_info(T)
        ELSE process_version(T, d.ptr)

(***************************************************************************)
(* The mod_cluster-manager page and its command links.                     *)
(***************************************************************************)
\* apr_table_get: the value of the first entry with the key, NULL for none
RECURSIVE apr_table_get(_, _)
apr_table_get(params, name) ==
    IF params = <<>> THEN NULL
    ELSE IF strcaseeq(Head(params)[1], name) THEN Head(params)[2]
    ELSE apr_table_get(Tail(params), name)

\* the entries of the table as the key, value array the processors read
RECURSIVE table_ptr(_)
table_ptr(params) ==
    IF params = <<>> THEN <<>>
    ELSE <<Head(params)[1], Head(params)[2]>> \o table_ptr(Tail(params))

\* the status of the verb a Cmd names, "NONE" for none of the four
cmd_status(cmd) ==
    IF strcaseeq(cmd, sENABLE_APP) THEN ENABLED_ST
    ELSE IF strcaseeq(cmd, sDISABLE_APP) THEN DISABLED
    ELSE IF strcaseeq(cmd, sSTOP_APP) THEN STOPPED
    ELSE IF strcaseeq(cmd, sREMOVE_APP) THEN REMOVE
    ELSE "NONE"

\* the processor of a verb on the array ptr, as manager_info and
\* process_domain call it; the array ends with NULL, NULL
process_verb(T, ptr, st, global) ==
    process_appl_cmd(T, process_appl_parse(ptr, "null"), st, global)

\* process_domain: the verb in node scope on every node of the domain, in
\* the order of the node ids; errstring is what the last call returned.  A
\* request without Domain passes NULL to strcmp.
RECURSIVE domain_loop(_, _, _, _, _, _)
domain_loop(T, ids, ptr, st, domain, resp) ==
    IF ids = {} THEN [T |-> T, resp |-> resp, route |-> <<>>]
    ELSE LET i == MinOf(ids)
         IN  IF domain = NULL THEN [T |-> T, resp |-> Resp("CRASH", 0), route |-> <<>>]
             ELSE IF T.nodes[i].Domain # domain
             THEN domain_loop(T, ids \ {i}, ptr, st, domain, resp)
             ELSE IF st = "NONE"
             THEN domain_loop(T, ids \ {i}, ptr, st, domain, resp)
             ELSE LET out == process_verb(T, ptr \o <<sJVMRoute, T.nodes[i].JVMRoute>>, st, TRUE)
                  IN  domain_loop(out.T, ids \ {i}, ptr, st, domain, out.resp)

process_domain(T, ptr, cmd, domain) ==
    domain_loop(T, UsedNodes(T), ptr, cmd_status(cmd), domain, Resp(NoError, 0))

\* manager_info without the check of the nonce
manager_info_nocheck(T, config, balancer_nonce, q) ==
    LET params == q.params
        cmd == apr_table_get(params, sCmd)
        typ == apr_table_get(params, sRange)
        domain == apr_table_get(params, sDomain)
        global == IF typ = NULL THEN 0
                  ELSE IF strcaseeq(typ, sNODE) THEN 1
                  ELSE IF strcaseeq(typ, sDOMAIN) THEN 2 ELSE 0
        Page(T1, resp) == [T |-> T1, resp |-> resp, route |-> <<>>, http |-> 200]
    IN  IF q.bad_args THEN [T |-> T, resp |-> Resp(NoError, 0), route |-> <<>>, http |-> 400]
        ELSE IF q.params = <<>> \/ cmd = NULL THEN Page(T, Resp(NoError, 0))
        ELSE IF strcaseeq(cmd, sDUMP) \/ strcaseeq(cmd, sINFO) THEN Page(T, Resp(NoError, 0))
        ELSE IF typ = NULL \/ config.allow_cmd = 0 THEN Page(T, Resp(NoError, 0))
        ELSE IF global = 2
        THEN LET out == process_domain(T, table_ptr(params), cmd, domain)
             IN  Page(out.T, out.resp)
        ELSE IF cmd_status(cmd) = "NONE" THEN Page(T, Resp("SCMDUNS", TYPESYNTAX))
        ELSE LET out == process_verb(T, table_ptr(params), cmd_status(cmd), global # 0)
             IN  Page(out.T, out.resp)

\* manager_info(r): q.bad_args says that an argument of the query string has
\* no '=', q.params are the arguments in the order of the query string.
\* The result is the tables, the error shown in the page and the HTTP
\* status returned.
manager_info(T, config, balancer_nonce, q) ==
    LET name == apr_table_get(q.params, sNonce)
        params == IF config.nonce # 0 /\ (name = NULL \/ name # balancer_nonce)
                  THEN <<>> ELSE q.params
        cmd == apr_table_get(params, sCmd)
        typ == apr_table_get(params, sRange)
        domain == apr_table_get(params, sDomain)
        global == IF typ = NULL THEN 0
                  ELSE IF strcaseeq(typ, sNODE) THEN 1
                  ELSE IF strcaseeq(typ, sDOMAIN) THEN 2 ELSE 0
        Page(T1, resp) == [T |-> T1, resp |-> resp, route |-> <<>>, http |-> 200]
    IN  IF q.bad_args THEN [T |-> T, resp |-> Resp(NoError, 0), route |-> <<>>, http |-> 400]
        ELSE IF q.params = <<>> \/ cmd = NULL THEN Page(T, Resp(NoError, 0))
        ELSE IF strcaseeq(cmd, sDUMP) \/ strcaseeq(cmd, sINFO) THEN Page(T, Resp(NoError, 0))
        ELSE IF typ = NULL \/ config.allow_cmd = 0 THEN Page(T, Resp(NoError, 0))
        ELSE IF global = 2
        THEN LET out == process_domain(T, table_ptr(params), cmd, domain)
             IN  Page(out.T, out.resp)
        ELSE IF cmd_status(cmd) = "NONE" THEN Page(T, Resp("SCMDUNS", TYPESYNTAX))
        ELSE LET out == process_verb(T, table_ptr(params), cmd_status(cmd), global # 0)
             IN  Page(out.T, out.resp)

(***************************************************************************)
(* manager_handler and the requests the senders issue.                     *)
(***************************************************************************)
\* process_error: the Type header for an errtype
process_error(errtype) ==
    IF errtype = TYPESYNTAX THEN "SYNTAX"
    ELSE IF errtype = TYPEMEM THEN "MEM"
    ELSE "GENERAL"

\* what the sender gets back: the HTTP status, the Type and Mess headers,
\* and the JVMRoute the processor parsed; was and wasversion are filled in
\* by Request with the JVMRoute each node slot held and the version counter
\* when the request arrived
Reply(method, out) ==
    [method |-> method,
     status |-> IF out.resp.mess = NoError THEN 200
                ELSE IF out.resp.mess = "CRASH" THEN 0 ELSE 500,
     Type |-> IF out.resp.mess = NoError \/ out.resp.mess = "CRASH" THEN "none"
              ELSE process_error(out.resp.errtype),
     Mess |-> out.resp.mess,
     route |-> out.route,
     was |-> [i \in NodeIds |-> <<>>],
     wasversion |-> 0]

NoReply == [method |-> "none", status |-> 0, Type |-> "none", Mess |-> NoError, route |-> <<>>,
            was |-> [i \in NodeIds |-> <<>>], wasversion |-> 0]

\* The part of manager_handler that does not read the tables: process_buff
\* and the parse loop of the processor.  A read past the end of the token
\* array happens when the array holds an odd number of tokens; oob says
\* what it finds.
ParseRequest(method, buff, oob) ==
    LET d == process_buff(buff)
    IN  IF ~d.ok THEN [parsed |-> FALSE, P |-> [resp |-> Resp("SMESPAR", TYPESYNTAX)],
                       ntok |-> 0, raw |-> buff]
        ELSE [parsed |-> TRUE,
              P |-> IF method = "CONFIG" THEN process_config_parse(d.ptr, oob)
                    ELSE process_appl_parse(d.ptr, oob),
              ntok |-> Len(d.ptr), raw |-> buff]

\* manager_handler for an MCMP method: dispatch on the method and build the
\* response
manager_handler(T, method, req, global) ==
    LET status == CASE method = "ENABLE-APP" -> ENABLED_ST
                    [] method = "DISABLE-APP" -> DISABLED
                    [] method = "STOP-APP" -> STOPPED
                    [] OTHER -> REMOVE
    IN  IF ~req.parsed
        THEN [T |-> T, resp |-> req.P.resp, route |-> <<>>]
        ELSE IF method = "CONFIG" THEN process_config(T, req.P)
        ELSE process_appl_cmd(T, req.P, status, global)

\* key=value pairs joined with '&'
RECURSIVE Body(_)
Body(pairs) ==
    IF pairs = <<>> THEN <<>>
    ELSE Head(pairs)[1] \o <<chEq>> \o Head(pairs)[2]
         \o (IF Len(pairs) > 1 THEN <<chAmp>> \o Body(Tail(pairs)) ELSE <<>>)

\* the values the senders of this model use
sN1 == <<110,49>>                                        \* "n1"
sN2 == <<110,50>>                                        \* "n2"
sN3 == <<110,51>>                                        \* "n3"
sH1 == <<104,49>>                                        \* "h1"
sH2 == <<104,50>>                                        \* "h2"
sH3 == <<104,51>>                                        \* "h3"
sA1 == <<97,49>>                                         \* "a1"
sA2 == <<97,50>>                                         \* "a2"
sC1 == <<47,99,49>>                                      \* "/c1"
sC2 == <<47,99,50>>                                      \* "/c2"
sA3 == <<97,51>>                                         \* "a3"
sC3 == <<47,99,51>>                                      \* "/c3"
sX == <<120>>                                            \* "x"
sB2 == <<98,50>>                                         \* "b2"
Routes == {sN1, sN2}
Hostnames == {sH1, sH2}
ConfigTails == {<<>>,
                <<<<sSmax, <<49>>>>>>,
                <<<<sAlias, sA1>>, <<sContext, sC1>>>>,
                <<<<sAlias, sA1>>, <<sContext, sC1>>, <<sAlias, sA2>>, <<sContext, sC2>>>>}

\* more Alias/Context pairs than the host table has rows
ManyAliases == <<<<sAlias, sA1>>, <<sContext, sC1>>, <<sAlias, sA2>>, <<sContext, sC2>>,
                 <<sAlias, sA3>>, <<sContext, sC3>>>>

\* both aliases in the list of one pair, and one alias in two pairs
SharedAliasTails ==
    {<<<<sAlias, sA1 \o <<chComma>> \o sA2>>, <<sContext, sC1>>>>,
     <<<<sAlias, sA1>>, <<sContext, sC1>>, <<sAlias, sA1>>, <<sContext, sC2>>>>}

\* Alias and Context fields that are not pairs: an Alias without a Context,
\* a Context without an Alias, two Alias in a row and two Context in a row
PairingTails ==
    {<<<<sAlias, sA1>>>>,
     <<<<sContext, sC1>>>>,
     <<<<sAlias, sA1>>, <<sAlias, sA2>>, <<sContext, sC1>>>>,
     <<<<sAlias, sA1>>, <<sContext, sC1>>, <<sContext, sC2>>>>}

\* n3 on h3 is the sender that finds the node table full, n2 on h1 with
\* ManyAliases the one that finds the host table full, and the senders of
\* balancer b2 find the balancer table full
ConfigBodies ==
    {Body(<<<<sJVMRoute, r>>, <<sHost, h>>>> \o t) :
        r \in Routes, h \in Hostnames, t \in ConfigTails}
    \cup {Body(<<<<sJVMRoute, sN3>>, <<sHost, sH3>>>>),
          Body(<<<<sJVMRoute, sN2>>, <<sHost, sH1>>>> \o ManyAliases)}
    \cup {Body(<<<<sJVMRoute, r>>, <<sHost, sH1>>, <<sBalancer, sB2>>>>) : r \in Routes}
    \cup {Body(<<<<sJVMRoute, sN1>>, <<sHost, sH1>>>> \o t) : t \in SharedAliasTails}

\* bodies the parser has to deal with: empty, a trailing empty pair, a key
\* without a value, an escaped '<', and an escaped '<' behind an empty value
OddBodies ==
    {<<>>,
     Body(<<<<sJVMRoute, sN1>>, <<sHost, sH1>>>>) \o <<chAmp>>,
     Body(<<<<sJVMRoute, sN1>>, <<sHost, sH1>>>>) \o <<chAmp>> \o sX,
     Body(<<<<sJVMRoute, sN1>>, <<sHost, sH1>>, <<sX, <<37,51,67>>>>>>),
     Body(<<<<sJVMRoute, sN1>>, <<sHost, sH1>>, <<sX, <<>>>>, <<sX, <<37,51,67>>>>>>)}

\* *-APP bodies without a JVMRoute, with two Alias, with two Context, with
\* an Alias and no Context, and with a Context and no Alias
BadApplPairs ==
    {<<<<sAlias, sA1>>, <<sContext, sC1>>>>,
     <<<<sJVMRoute, sN1>>, <<sAlias, sA1>>, <<sAlias, sA2>>, <<sContext, sC1>>>>,
     <<<<sJVMRoute, sN1>>, <<sAlias, sA1>>, <<sContext, sC1>>, <<sContext, sC2>>>>,
     <<<<sJVMRoute, sN1>>, <<sAlias, sA1>>>>,
     <<<<sJVMRoute, sN1>>, <<sContext, sC1>>>>}

ApplBodies ==
    {Body(<<<<sJVMRoute, r>>, <<sAlias, ac[1]>>, <<sContext, ac[2]>>>>) :
        r \in Routes, ac \in {<<sA1, sC1>>, <<sA2, sC2>>}}
    \cup {Body(<<<<sJVMRoute, sN1>>, <<sAlias, sA1>>,
                  <<sContext, sC1 \o <<chComma>> \o sC2>>>>)}

NodeBodies == {Body(<<<<sJVMRoute, r>>>>) : r \in Routes}

\* the senders that do not pair Alias and Context: CONFIG bodies with the
\* tails above next to plain ones, and *-APP bodies with the fields above
\* next to an empty body and a plain one
PairingConfigBodies ==
    {Body(<<<<sJVMRoute, sN1>>, <<sHost, sH1>>>> \o t) :
        t \in PairingTails \cup {<<>>, <<<<sAlias, sA2>>, <<sContext, sC2>>>>}}

PairingApplBodies ==
    {Body(t) : t \in BadApplPairs}
    \cup {<<>>, Body(<<<<sJVMRoute, sN1>>, <<sAlias, sA1>>, <<sContext, sC1>>>>),
          Body(<<<<sJVMRoute, sN1>>>>)}

\* the requests, parsed once
ConfigRequests ==
    {ParseRequest("CONFIG", b, oob) : b \in ConfigBodies \cup OddBodies, oob \in {"null", "wild"}}
ApplRequests ==
    {ParseRequest("REMOVE-APP", b, oob) : b \in ApplBodies, oob \in {"null", "wild"}}
NodeRequests ==
    {ParseRequest("REMOVE-APP", b, oob) : b \in NodeBodies, oob \in {"null", "wild"}}

\* no function called on its own
NoCall == [fn |-> "none", arg |-> <<>>, done |-> FALSE, ret |-> <<>>]

\* create_mod_manager_config: CheckNonce and AllowCmd are on (-1) unless
\* the configuration switches them off (0)
create_mod_manager_config == [nonce |-> -1, allow_cmd |-> -1, tableversion |-> 0]

\* the processes of the model: two that handle requests and the watchdog of
\* the proxy
Handlers == {1, 2}
Watchdog == 3
Procs == Handlers \cup {Watchdog}

\* a process that has no request: pc is the place in the processor, P the
\* parsed request, id and removed the locals of process_config, resp what
\* the processor returns, held the acquisitions of the node lock it has not
\* released, ctx whether it holds the context lock, seen the version the
\* watchdog read.  bumped (the version the request raised the counter to)
\* and reused (the tombstone the request rewrote) record what happened.
NoProc == [pc |-> "idle", method |-> "none", P |-> [resp |-> Resp(NoError, 0)],
           global |-> FALSE, id |-> 0, removed |-> 0, resp |-> Resp(NoError, 0),
           held |-> 0, ctx |-> FALSE, seen |-> 0, bumped |-> 0, reused |-> 0]

PairingConfigRequests ==
    {ParseRequest("CONFIG", b, oob) : b \in PairingConfigBodies, oob \in {"null", "wild"}}
PairingApplRequests ==
    {ParseRequest("REMOVE-APP", b, oob) : b \in PairingApplBodies, oob \in {"null", "wild"}}

Init ==
    /\ nodes = [i \in NodeIds |-> NoNode]
    /\ hosts = [i \in HostIds |-> NoHost]
    /\ contexts = [i \in ContextIds |-> NoContext]
    /\ balancers = {}
    /\ workers = [i \in NodeIds |-> NoWorker]
    /\ version = 0
    /\ last = NoReply
    /\ call = NoCall
    /\ mconf = create_mod_manager_config
    /\ proc = [p \in Procs |-> NoProc]
    /\ mutex = [node |-> 1, context |-> 1]

\* one MCMP request, handled from the body to the response out while the
\* version counter is below max
RequestUpTo(max, method, out) ==
    /\ version < max
    /\ nodes' = out.T.nodes
    /\ hosts' = out.T.hosts
    /\ contexts' = out.T.contexts
    /\ balancers' = out.T.balancers
    /\ workers' = out.T.workers
    /\ version' = out.T.version
    /\ last' = [Reply(method, out) EXCEPT !.was = [i \in NodeIds |-> nodes[i].JVMRoute],
                                          !.wasversion = version]
    /\ UNCHANGED <<call, conf>>

Request(method, out) == RequestUpTo(MaxVersion, method, out)

ConfigRequest(req) == Request("CONFIG", manager_handler(Tables, "CONFIG", req, FALSE))

CONFIG == \E req \in ConfigRequests : ConfigRequest(req)

\* the verbs in context scope and, with global set, in node scope
ApplRequest(method) ==
    \E global \in BOOLEAN :
        \E req \in (IF global THEN NodeRequests ELSE ApplRequests) :
            Request(method, manager_handler(Tables, method, req, global))

ENABLE_APP == ApplRequest("ENABLE-APP")
DISABLE_APP == ApplRequest("DISABLE-APP")
STOP_APP == ApplRequest("STOP-APP")
REMOVE_APP == ApplRequest("REMOVE-APP")

(***************************************************************************)
(* The watchdog of the proxy: it creates the worker of a live node, and    *)
(* reaps the nodes marked removed.                                         *)
(***************************************************************************)
update_workers_node ==
    \E i \in NodeIds :
        /\ nodes[i].used /\ nodes[i].remove = 0
        /\ workers[i] # WorkerOf(nodes[i])
        /\ workers' = [workers EXCEPT ![i] = WorkerOf(nodes[i])]
        /\ last' = NoReply
        /\ UNCHANGED <<nodes, hosts, contexts, balancers, version, call, conf>>

\* a node marked removed first becomes a "REMOVED" tombstone without hosts
\* and contexts, and the tombstone is freed later
remove_removed_node ==
    \E i \in NodeIds :
        /\ nodes[i].used /\ nodes[i].remove # 0
        /\ LET T1 == IF nodes[i].JVMRoute # sREMOVED
                     THEN loc_remove_host_context(mark_node_removed(Tables, i), i)
                     ELSE loc_remove_node(loc_remove_host_context(Tables, i), i)
           IN  /\ nodes' = T1.nodes
               /\ hosts' = T1.hosts
               /\ contexts' = T1.contexts
        /\ last' = NoReply
        /\ UNCHANGED <<balancers, workers, version, call, conf>>

Next ==
    \/ CONFIG
    \/ ENABLE_APP
    \/ DISABLE_APP
    \/ STOP_APP
    \/ REMOVE_APP
    \/ update_workers_node
    \/ remove_removed_node

Spec == Init /\ [][Next]_vars

(***************************************************************************)
(* decodeenc called on its own, on one percent-encoded token.              *)
(***************************************************************************)
\* the longest byte sequence encoded
MaxLen == 3

\* NUL, '%', '&', '2', '<', 'A' and a byte above 127
Bytes == {0, 37, 38, 50, 60, 65, 233}
ByteSeqs == UNION {[1..n -> Bytes] : n \in 0..MaxLen}

\* the characters a sender leaves as they are: letters, digits, '-', '.', '_', '~'
Unreserved(c) ==
    \/ apr_isdigit(c) \/ apr_isupper(c) \/ (c >= 97 /\ c <= 122)
    \/ c \in {45, 46, 95, 126}

HexDigit(n) == IF n < 10 THEN 48 + n ELSE 55 + n

\* percent-encoding as the sender does it: "%XX" for every other byte
RECURSIVE encode(_)
encode(B) ==
    IF B = <<>> THEN <<>>
    ELSE (IF Unreserved(Head(B)) THEN <<Head(B)>>
          ELSE <<chPct, HexDigit(Head(B) \div 16), HexDigit(Head(B) % 16)>>)
         \o encode(Tail(B))

InitCodec ==
    /\ nodes = [i \in NodeIds |-> NoNode]
    /\ hosts = [i \in HostIds |-> NoHost]
    /\ contexts = [i \in ContextIds |-> NoContext]
    /\ balancers = {}
    /\ workers = [i \in NodeIds |-> NoWorker]
    /\ version = 0
    /\ last = NoReply
    /\ call \in {[fn |-> "decodeenc", arg |-> B, done |-> FALSE, ret |-> <<>>] : B \in ByteSeqs}
    /\ mconf = create_mod_manager_config
    /\ proc = [p \in Procs |-> NoProc]
    /\ mutex = [node |-> 1, context |-> 1]

\* decodeenc on the token array that holds encode(arg) alone
decodeenc_call ==
    /\ call.fn = "decodeenc" /\ ~call.done
    /\ call' = [call EXCEPT !.done = TRUE, !.ret = decodeenc(<<encode(call.arg)>>, 1)]
    /\ UNCHANGED <<nodes, hosts, contexts, balancers, workers, version, last, conf>>

NextCodec == decodeenc_call

SpecCodec == InitCodec /\ [][NextCodec]_vars

(***************************************************************************)
(* The senders that do not pair Alias and Context.                         *)
(***************************************************************************)
ApplVerbs == {"ENABLE-APP", "DISABLE-APP", "STOP-APP", "REMOVE-APP"}

\* one *-APP request of the method, in node scope when global is set
ApplStep(method, req, global) ==
    Request(method, manager_handler(Tables, method, req, global))

CONFIG_pairing == \E req \in PairingConfigRequests : ConfigRequest(req)

APP_pairing ==
    \E method \in ApplVerbs : \E global \in BOOLEAN :
        \E req \in PairingApplRequests : ApplStep(method, req, global)

NextPairing == CONFIG_pairing \/ APP_pairing

SpecPairing == Init /\ [][NextPairing]_vars

(***************************************************************************)
(* The senders of fields the commands do not know: CONFIG, STATUS and PING *)
(* with the key "x" among their fields.                                    *)
(***************************************************************************)
sOne == <<49>>                                           \* "1"
FieldTails == {<<>>, <<<<sX, sOne>>>>, <<<<sAlias, sA1>>, <<sContext, sC1>>>>}

FieldConfigBodies ==
    {Body(<<<<sJVMRoute, r>>, <<sHost, h>>>> \o t) :
        r \in Routes, h \in Hostnames, t \in FieldTails}

FieldConfigRequests ==
    {ParseRequest("CONFIG", b, oob) : b \in FieldConfigBodies, oob \in {"null", "wild"}}

StatusBodies ==
    {Body(<<<<sJVMRoute, sN1>>, <<sLoad, sOne>>>>),
     Body(<<<<sJVMRoute, sN1>>, <<sX, sOne>>>>),
     Body(<<<<sX, sOne>>, <<sJVMRoute, sN1>>, <<sLoad, sOne>>>>),
     Body(<<<<sLoad, sOne>>>>)}

PingBodies ==
    {<<>>,
     Body(<<<<sJVMRoute, sN1>>>>),
     Body(<<<<sJVMRoute, sN1>>, <<sX, sOne>>>>),
     Body(<<<<sX, sOne>>>>),
     Body(<<<<sScheme, sAjp>>, <<sHost, sH1>>, <<sPort, s8009>>>>),
     Body(<<<<sScheme, sAjp>>, <<sX, sOne>>>>),
     Body(<<<<sScheme, sAjp>>>>)}

ProbeBodies(method) == IF method = "STATUS" THEN StatusBodies ELSE PingBodies

\* one STATUS or PING request
ProbeStep(method, buff, oob) == Request(method, manager_handler_probe(Tables, method, buff, oob))

CONFIG_fields == \E req \in FieldConfigRequests : ConfigRequest(req)
STATUS == \E buff \in StatusBodies : \E oob \in {"null", "wild"} : ProbeStep("STATUS", buff, oob)
PING == \E buff \in PingBodies : \E oob \in {"null", "wild"} : ProbeStep("PING", buff, oob)

NextFields == CONFIG_fields \/ STATUS \/ PING

SpecFields == Init /\ [][NextFields]_vars

(***************************************************************************)
(* The browser on the mod_cluster-manager page: GET requests with a query  *)
(* string, next to the nodes that register.                                *)
(***************************************************************************)
\* the nonce manager_init made, and another one
sUuid == <<117>>                                         \* "u"
sOther == <<118>>                                        \* "v"
NonceArgs == {<<>>, <<<<sNonce, sUuid>>>>, <<<<sNonce, sOther>>>>}
\* what the links of the page and a hand-written query ask for
CmdArgs ==
    {<<<<sCmd, sREMOVE_APP>>, <<sRange, sNODE>>, <<sJVMRoute, sN1>>>>,
     <<<<sCmd, sENABLE_APP>>, <<sRange, sCONTEXT>>, <<sJVMRoute, sN1>>,
       <<sAlias, sA1>>, <<sContext, sC1>>>>,
     <<<<sCmd, sREMOVE_APP>>, <<sRange, sDOMAIN>>, <<sDomain, <<>>>>>>,
     <<<<sCmd, sDUMP>>>>,
     <<<<sCmd, sX>>, <<sRange, sNODE>>, <<sJVMRoute, sN1>>>>,
     <<<<sCmd, sREMOVE_APP>>, <<sJVMRoute, sN1>>>>}

Queries ==
    {[bad_args |-> FALSE, params |-> n \o c] : n \in NonceArgs, c \in CmdArgs}
    \cup {[bad_args |-> TRUE, params |-> <<>>]}

UIConfigRequests ==
    {ParseRequest("CONFIG", Body(<<<<sJVMRoute, r>>, <<sHost, h>>>> \o t), "null") :
        r \in Routes, h \in Hostnames, t \in {<<>>, <<<<sAlias, sA1>>, <<sContext, sC1>>>>}}

InitUI ==
    /\ nodes = [i \in NodeIds |-> NoNode]
    /\ hosts = [i \in HostIds |-> NoHost]
    /\ contexts = [i \in ContextIds |-> NoContext]
    /\ balancers = {}
    /\ workers = [i \in NodeIds |-> NoWorker]
    /\ version = 0
    /\ last = NoReply
    /\ call = NoCall
    /\ mconf \in {[create_mod_manager_config EXCEPT !.nonce = n, !.allow_cmd = a] :
                      n \in {0, -1}, a \in {0, -1}}
    /\ proc = [p \in Procs |-> NoProc]
    /\ mutex = [node |-> 1, context |-> 1]

\* one GET of the page, handled from the query string to the page out
PageRequest(q, out) ==
    /\ version < MaxVersion
    /\ nodes' = out.T.nodes
    /\ hosts' = out.T.hosts
    /\ contexts' = out.T.contexts
    /\ balancers' = out.T.balancers
    /\ workers' = out.T.workers
    /\ version' = out.T.version
    /\ last' = [Reply("GET", out) EXCEPT !.status = out.http,
                                         !.was = [i \in NodeIds |-> nodes[i].JVMRoute],
                                         !.wasversion = version]
    /\ call' = [fn |-> "manager_info", arg |-> q, done |-> TRUE, ret |-> out.http]
    /\ UNCHANGED conf

GET(q) == PageRequest(q, manager_info(Tables, mconf, sUuid, q))

CONFIG_ui ==
    \E req \in UIConfigRequests :
        /\ nodes' = manager_handler(Tables, "CONFIG", req, FALSE).T.nodes
        /\ ConfigRequest(req)

GET_ui == \E q \in Queries : GET(q)

NextUI == CONFIG_ui \/ GET_ui

SpecUI == InitUI /\ [][NextUI]_vars

(***************************************************************************)
(* Two nodes of one LB group on one host, as TestFailover starts them:     *)
(* each registers with CONFIG, enables the same context and, when its      *)
(* service is removed, sends REMOVE-APP in node scope.                     *)
(***************************************************************************)
sDom1 == <<100,49>>                                      \* "d1"
s8011 == <<56,48,49,49>>                                 \* "8011"
s8010 == <<56,48,49,48>>                                 \* "8010"
\* the connector of each node
PortOf == [r \in Routes |-> IF r = sN1 THEN s8011 ELSE s8010]

FailoverConfig(r) ==
    ParseRequest("CONFIG",
                 Body(<<<<sJVMRoute, r>>, <<sHost, sH1>>, <<sPort, PortOf[r]>>,
                        <<sDomain, sDom1>>>>), "null")
FailoverAppl(r) ==
    ParseRequest("ENABLE-APP",
                 Body(<<<<sJVMRoute, r>>, <<sAlias, sA1>>, <<sContext, sC1>>>>), "null")
FailoverNode(r) ==
    ParseRequest("REMOVE-APP", Body(<<<<sJVMRoute, r>>>>), "null")

FailoverStep(method, req, global) ==
    RequestUpTo(MaxFailoverVersion, method, manager_handler(Tables, method, req, global))

CONFIG_failover == \E r \in Routes : FailoverStep("CONFIG", FailoverConfig(r), FALSE)
ENABLE_failover == \E r \in Routes : FailoverStep("ENABLE-APP", FailoverAppl(r), FALSE)
REMOVE_failover == \E r \in Routes : FailoverStep("REMOVE-APP", FailoverNode(r), TRUE)

NextFailover ==
    \/ CONFIG_failover
    \/ ENABLE_failover
    \/ REMOVE_failover
    \/ update_workers_node
    \/ remove_removed_node

SpecFailover == Init /\ [][NextFailover]_vars

\* the watchdog of the proxy runs again and again
SpecFailoverLive == SpecFailover /\ WF_vars(remove_removed_node)

(***************************************************************************)
(* Nodes of two LB groups and the links of the page that enable, disable,  *)
(* stop and remove the contexts of all the nodes of a group.               *)
(***************************************************************************)
sDom2 == <<100,50>>                                      \* "d2"
Domains == {sDom1, sDom2}

DomainConfigRequests ==
    {ParseRequest("CONFIG", Body(<<<<sJVMRoute, r>>, <<sHost, sH1>>, <<sPort, PortOf[r]>>,
                                   <<sDomain, d>>>> \o t), "null") :
        r \in Routes, d \in Domains,
        t \in {<<>>, <<<<sAlias, sA1>>, <<sContext, sC1>>>>,
                     <<<<sAlias, sA1>>, <<sContext, sC1>>, <<sAlias, sA1>>, <<sContext, sC2>>>>}}

DomainCmds == {sENABLE_APP, sDISABLE_APP, sSTOP_APP, sREMOVE_APP}

\* the query of a "Domain" link of the page
DomainQuery(cmd, d) ==
    [bad_args |-> FALSE,
     params |-> <<<<sNonce, sUuid>>, <<sCmd, cmd>>, <<sRange, sDOMAIN>>, <<sDomain, d>>>>]

CONFIG_domain ==
    \E req \in DomainConfigRequests :
        /\ nodes' = manager_handler(Tables, "CONFIG", req, FALSE).T.nodes
        /\ ConfigRequest(req)

GET_domain == \E cmd \in DomainCmds : \E d \in Domains : GET(DomainQuery(cmd, d))

NextDomain == CONFIG_domain \/ GET_domain

SpecDomain == Init /\ [][NextDomain]_vars

(***************************************************************************)
(* One node whose contexts are enabled, disabled, stopped and removed on   *)
(* aliases that are and are not hosts of the node yet.                     *)
(***************************************************************************)
MaxVhostVersion == 5
sUpperA1 == <<65,49>>                                    \* "A1"

VhostConfigRequests ==
    {ParseRequest("CONFIG", Body(<<<<sJVMRoute, sN1>>, <<sHost, sH1>>>> \o t), "null") :
        t \in {<<>>, <<<<sAlias, sA1>>, <<sContext, sC1>>>>,
                     <<<<sAlias, sUpperA1>>, <<sContext, sC1>>>>}}

\* the alias lists a1, A1, a2, "a2,a3" and "a3,a1"
VhostApplRequests ==
    {ParseRequest("REMOVE-APP", Body(<<<<sJVMRoute, sN1>>, <<sAlias, ac[1]>>,
                                      <<sContext, ac[2]>>>>), "null") :
        ac \in {<<sA1, sC1>>, <<sUpperA1, sC1>>, <<sA2, sC2>>,
                <<sA2 \o <<chComma>> \o sA3, sC2>>,
                <<sA3 \o <<chComma>> \o sA1, sC1>>}}

VhostStep(method, req) ==
    RequestUpTo(MaxVhostVersion, method, manager_handler(Tables, method, req, FALSE))

CONFIG_vhost == \E req \in VhostConfigRequests : VhostStep("CONFIG", req)
ENABLE_vhost == \E req \in VhostApplRequests : VhostStep("ENABLE-APP", req)
DISABLE_vhost == \E req \in VhostApplRequests : VhostStep("DISABLE-APP", req)
STOP_vhost == \E req \in VhostApplRequests : VhostStep("STOP-APP", req)
REMOVE_vhost == \E req \in VhostApplRequests : VhostStep("REMOVE-APP", req)

NextVhost == CONFIG_vhost \/ ENABLE_vhost \/ DISABLE_vhost \/ STOP_vhost \/ REMOVE_vhost

SpecVhost == Init /\ [][NextVhost]_vars

(***************************************************************************)
(* The requests that report: STATUS, PING, DUMP, INFO and VERSION on the   *)
(* tables a node fills and empties.                                        *)
(***************************************************************************)
\* an empty body, a body the processors do not read, a body process_buff
\* refuses ('<')
ReportBodies == {<<>>, Body(<<<<sJVMRoute, sN1>>>>), <<60>>}

ReportStep(method, buff) == Request(method, manager_handler_report(Tables, method, buff))

DUMP == \E buff \in ReportBodies : ReportStep("DUMP", buff)
INFO == \E buff \in ReportBodies : ReportStep("INFO", buff)
VERSION == \E buff \in ReportBodies : ReportStep("VERSION", buff)

NextReport ==
    \/ CONFIG_vhost
    \/ ENABLE_vhost
    \/ REMOVE_vhost
    \/ STATUS
    \/ PING
    \/ DUMP
    \/ INFO
    \/ VERSION

SpecReport == Init /\ [][NextReport]_vars

(***************************************************************************)
(* The handlers step by step: requests handled at the same time by two     *)
(* processes, next to the watchdog of the proxy.  A step is what a         *)
(* process does between two places where another process can see the      *)
(* tables: taking and releasing a lock, the version increment, and the     *)
(* changes made after it.                                                  *)
(***************************************************************************)
\* the most a semaphore counts in this model
MaxSem == 2

\* apr_global_mutex_lock(node_mutex) can return when the mutex is free
CanLock(m) == m >= 1

\* an unlock that leaves the mutex taken
unlock_value_keep(m, held, post) == m

\* apr_global_mutex_unlock(node_mutex) by a process that holds it held
\* times.  Unlocking a mutex that is not held does nothing with a file lock
\* or a robust mutex and posts the semaphore with sysvsem or posixsem; post
\* chooses between the two.
unlock_value(m, held, post) ==
    IF held > 0 THEN m + 1
    ELSE IF post /\ m < MaxSem THEN m + 1 ELSE m

\* the status a verb sets
VerbStatus(method) ==
    CASE method = "ENABLE-APP" -> ENABLED_ST
      [] method = "DISABLE-APP" -> DISABLED
      [] method = "STOP-APP" -> STOPPED
      [] OTHER -> REMOVE

\* insert_update_node as process_config calls it; with fault it returns an
\* error although the table has room.  process_config asks for that only
\* where it has saved or rewritten the slot of a removed node.
insert_update_node_status(T, node, id, fault) ==
    IF fault THEN [ok |-> FALSE, id |-> -1, T |-> T] ELSE insert_update_node(T, node, id)

\* process_config from the node lock to the version increment: the
\* balancer, the checks of the node, the search for the slot and the insert
\* of the node.  next says where the processor goes on: "ret" to the unlock
\* and return, "fail" to the path of the failed insert, "vhosts" to the
\* Alias/Context loop.
config_node(T, nodeinfo, vhost, fault) ==
    LET Out(T2, resp, next) ==
            [T |-> T2, resp |-> resp, next |-> next, id |-> 0, removed |-> 0, reused |-> 0]
        \* from the insert of the node on
        Insert(s, was, ins) ==
            LET T1 == IF s.clean = 0 THEN reenable_proxy_worker(ins.T, ins.id, nodeinfo)
                      ELSE ins.T
                reused == IF was = {} THEN 0 ELSE MinOf(was)
            IN  IF ~ins.ok
                THEN [T |-> s.T, resp |-> Resp("MNODEUI", TYPEMEM), next |-> "fail", id |-> 0,
                      removed |-> s.removed, reused |-> reused]
                ELSE [T |-> inc_version_node(T1), resp |-> Resp(NoError, 0),
                      \* ap_assert(workernode != NULL) ends the process with the lock held
                      next |-> IF s.clean = 0 /\ read_node_by_id(ins.T, ins.id) = 0 THEN "abort"
                               ELSE IF vhost[1].host = NULL /\ vhost[1].context = NULL
                               THEN "ret" ELSE "vhosts",
                      id |-> ins.id, removed |-> s.removed, reused |-> reused]
        \* from the search for the slot on; was holds the tombstones whose
        \* JVMRoute the search has rewritten
        Slot(bal, s) ==
            LET was == {i \in NodeIds : /\ bal.T.nodes[i].JVMRoute = sREMOVED
                                        /\ s.T.nodes[i].JVMRoute # sREMOVED}
                id1 == IF s.id = -1 THEN proxy_node_get_free_id(s.T, MaxNode) ELSE s.id
            IN  IF s.err THEN Out(bal.T, Resp("MNODEET", TYPEMEM), "ret")
                ELSE With(insert_update_node_status(s.T, nodeinfo, id1,
                                                    fault /\ (s.removed # 0 \/ was # {})),
                          LAMBDA ins : Insert(s, was, ins))
        \* from the checks of the node on
        Node(bal, node) ==
            IF ~bal.ok THEN Out(T, Resp("MBALAUI", TYPEMEM), "ret")
            ELSE IF node # 0 /\ ~is_same_node(bal.T.nodes[node], nodeinfo)
            THEN Out(inc_version_node(loc_remove_host_context(mark_node_removed(bal.T, node),
                                                              node)),
                     Resp("MNODERM", TYPEMEM), "ret")
            ELSE IF is_same_worker_existing(bal.T, nodeinfo)
            THEN Out(bal.T, Resp("MNODEET", TYPEMEM), "ret")
            ELSE With(config_slot(bal.T, nodeinfo, node), LAMBDA s : Slot(bal, s))
    IN  With(insert_update_balancer(T, nodeinfo.balancer),
             LAMBDA bal : With(find_node(bal.T, nodeinfo.JVMRoute),
                               LAMBDA node : Node(bal, node)))

\* the requests of the two handlers: n1 on h1, n2 on h2 with an Alias and a
\* Context, and n3 on h3; ENABLE-APP of a context of n1 and REMOVE-APP of n1
\* in node scope
LockConfigRequests ==
    {ParseRequest("CONFIG", Body(b), "null") :
        b \in {<<<<sJVMRoute, sN1>>, <<sHost, sH1>>>>,
               <<<<sJVMRoute, sN2>>, <<sHost, sH2>>, <<sAlias, sA2>>, <<sContext, sC2>>>>,
               <<<<sJVMRoute, sN3>>, <<sHost, sH3>>>>}}
LockApplRequest ==
    ParseRequest("ENABLE-APP", Body(<<<<sJVMRoute, sN1>>, <<sAlias, sA1>>, <<sContext, sC1>>>>),
                 "null")
LockNodeRequest == ParseRequest("REMOVE-APP", Body(<<<<sJVMRoute, sN1>>>>), "null")

\* the tables of the next state
SetTables(T) ==
    /\ nodes' = T.nodes
    /\ hosts' = T.hosts
    /\ contexts' = T.contexts
    /\ balancers' = T.balancers
    /\ workers' = T.workers
    /\ version' = T.version

\* process p goes on with the fields of its record that f gives
Goto(p, f) == proc' = [proc EXCEPT ![p] = f]

\* manager_handler: a request arrives at an idle handler, which parses it;
\* a request that does not parse is answered at once
recv(p, method, req, global) ==
    /\ proc[p].pc = "idle"
    /\ version < MaxVersion
    /\ IF ~req.parsed \/ req.P.resp.mess # NoError
       THEN /\ last' = Reply(method, [resp |-> req.P.resp, route |-> <<>>])
            /\ UNCHANGED proc
       ELSE /\ Goto(p, [NoProc EXCEPT !.pc = "lock", !.method = method, !.P = req.P,
                                      !.global = global])
            /\ UNCHANGED last
    /\ UNCHANGED <<nodes, hosts, contexts, balancers, workers, version, call, mconf, mutex>>

\* loc_lock_nodes() at the start of the transaction
lock_nodes(p) ==
    /\ proc[p].pc = "lock"
    /\ CanLock(mutex.node)
    /\ mutex' = [mutex EXCEPT !.node = @ - 1]
    /\ Goto(p, [proc[p] EXCEPT !.pc = IF proc[p].method = "CONFIG" THEN "config"
                                     ELSE IF proc[p].method \in {"STATUS", "PING"} THEN "probe"
                                     ELSE "appl",
                               !.held = @ + 1])
    /\ UNCHANGED <<nodes, hosts, contexts, balancers, workers, version, last, call, mconf>>

\* process_config from the lock to the version increment
config_step(p) ==
    /\ proc[p].pc = "config"
    /\ \E fault \in BOOLEAN :
          \E out \in {config_node(Tables, proc[p].P.nodeinfo, proc[p].P.vhost, fault)} :
              /\ SetTables(out.T)
              /\ Goto(p, [proc[p] EXCEPT !.pc = out.next, !.resp = out.resp, !.id = out.id,
                                         !.removed = out.removed, !.reused = out.reused,
                                         !.bumped = IF out.T.version # version
                                                    THEN out.T.version ELSE 0])
    /\ UNCHANGED <<last, call, mconf, mutex>>

\* the Alias/Context loop of process_config
vhosts_out(p) == config_vhosts(Tables, proc[p].P.vhost, proc[p].id, 1)

vhosts_step(p) ==
    /\ proc[p].pc = "vhosts"
    /\ \E out \in {vhosts_out(p)} :
          /\ SetTables(out.T)
          /\ Goto(p, [proc[p] EXCEPT !.pc = "ret", !.resp = out.resp])
    /\ UNCHANGED <<last, call, mconf, mutex>>

\* the path of the failed insert: loc_unlock_nodes()
fail_unlock(p, post) ==
    /\ proc[p].pc = "fail"
    /\ mutex' = [mutex EXCEPT !.node = unlock_value(@, proc[p].held, post)]
    /\ Goto(p, [proc[p] EXCEPT !.pc = "fail_mark", !.held = IF @ > 0 THEN @ - 1 ELSE 0])
    /\ UNCHANGED <<nodes, hosts, contexts, balancers, workers, version, last, call, mconf>>

\* the path of the failed insert: if (removed) mark_node_removed(...)
fail_mark(p) ==
    /\ proc[p].pc = "fail_mark"
    /\ SetTables(IF proc[p].removed # 0
                 THEN mark_node_removed(Tables, read_node_by_id(Tables, proc[p].removed))
                 ELSE Tables)
    /\ Goto(p, [proc[p] EXCEPT !.pc = "ret"])
    /\ UNCHANGED <<last, call, mconf, mutex>>

\* process_appl_cmd from the lock to the version increment
appl_step(p) ==
    /\ proc[p].pc = "appl"
    /\ LET node == find_node(Tables, proc[p].P.JVMRoute)
       IN  IF node = 0 \/ nodes[node].remove # 0
           THEN /\ Goto(p, [proc[p] EXCEPT
                              !.pc = "ret",
                              !.resp = IF VerbStatus(proc[p].method) = REMOVE
                                       THEN Resp(NoError, 0) ELSE Resp("MNODERD", TYPEMEM)])
                /\ UNCHANGED <<nodes, hosts, contexts, balancers, workers, version>>
           ELSE /\ SetTables(inc_version_node(Tables))
                /\ Goto(p, [proc[p] EXCEPT !.pc = "apply", !.id = node, !.bumped = version + 1])
    /\ UNCHANGED <<last, call, mconf, mutex>>

\* process_appl_cmd after the version increment: the verb on the node or on
\* the contexts of the request
apply_out(p) ==
    IF proc[p].global
    THEN [T |-> process_node_cmd(Tables, VerbStatus(proc[p].method), proc[p].id),
          resp |-> Resp(NoError, 0)]
    ELSE appl_context(Tables, proc[p].P, VerbStatus(proc[p].method), proc[p].id)

apply_step(p) ==
    /\ proc[p].pc = "apply"
    /\ \E out \in {apply_out(p)} :
          /\ SetTables(out.T)
          /\ Goto(p, [proc[p] EXCEPT !.pc = "ret", !.resp = out.resp])
    /\ UNCHANGED <<last, call, mconf, mutex>>

\* loc_unlock_nodes() and the return of the processor: the response goes out
unlock_return(p, post) ==
    /\ proc[p].pc = "ret"
    /\ mutex' = [mutex EXCEPT !.node = unlock_value(@, proc[p].held, post)]
    /\ last' = Reply(proc[p].method,
                     [resp |-> proc[p].resp,
                      route |-> IF proc[p].method = "CONFIG" THEN proc[p].P.nodeinfo.JVMRoute
                                ELSE proc[p].P.JVMRoute])
    /\ Goto(p, NoProc)
    /\ UNCHANGED <<nodes, hosts, contexts, balancers, workers, version, call, mconf>>

\* the watchdog takes the node lock before it looks at the version
watch_lock ==
    /\ proc[Watchdog].pc \in {"idle", "wait_nodes"}
    /\ CanLock(mutex.node)
    /\ mutex' = [mutex EXCEPT !.node = @ - 1]
    /\ Goto(Watchdog, [proc[Watchdog] EXCEPT !.pc = "need_update", !.held = 1])
    /\ UNCHANGED <<nodes, hosts, contexts, balancers, workers, version, last, call, mconf>>

\* the widths of the model: CounterBits for the apr_uint64_t counter of
\* version_data, UnsignedBits for the unsigned last and tableversion
CounterBits == 6
UnsignedBits == 4

\* get_version_node: base->counter
get_version_node == version

\* loc_worker_nodes_need_update: the counter is read into the unsigned last
\* (last_ here); last when it is not the tableversion of the last update, 0
\* otherwise
loc_worker_nodes_need_update ==
    LET last_ == get_version_node % (2 ^ UnsignedBits)
    IN  IF last_ # mconf.tableversion THEN last_ ELSE 0

watch_need_update ==
    /\ proc[Watchdog].pc = "need_update"
    /\ Goto(Watchdog, [proc[Watchdog] EXCEPT
                         !.pc = IF loc_worker_nodes_need_update # 0 THEN "read" ELSE "unlock",
                         !.seen = loc_worker_nodes_need_update])
    /\ UNCHANGED <<nodes, hosts, contexts, balancers, workers, version, last, call, mconf, mutex>>

\* the watchdog reads the tables: every live node gets its worker, a node
\* marked removed goes the way of remove_removed_node, and
\* loc_worker_nodes_are_updated stores the version read
watch_read ==
    /\ proc[Watchdog].pc = "read"
    /\ workers' = [i \in NodeIds |->
                     IF nodes[i].used /\ nodes[i].remove = 0 THEN WorkerOf(nodes[i])
                     ELSE workers[i]]
    /\ LET T1(i, T) == IF ~T.nodes[i].used \/ T.nodes[i].remove = 0 THEN T
                       ELSE IF T.nodes[i].JVMRoute # sREMOVED
                       THEN loc_remove_host_context(mark_node_removed(T, i), i)
                       ELSE loc_remove_node(loc_remove_host_context(T, i), i)
           T2 == T1(2, T1(1, Tables))
       IN  /\ nodes' = T2.nodes
           /\ hosts' = T2.hosts
           /\ contexts' = T2.contexts
    /\ mconf' = [mconf EXCEPT !.tableversion = proc[Watchdog].seen]
    /\ Goto(Watchdog, [proc[Watchdog] EXCEPT !.pc = "unlock"])
    /\ UNCHANGED <<balancers, version, last, call, mutex>>

watch_unlock ==
    /\ proc[Watchdog].pc = "unlock"
    /\ mutex' = [mutex EXCEPT !.node = unlock_value(@, proc[Watchdog].held, FALSE)]
    /\ Goto(Watchdog, [proc[Watchdog] EXCEPT
                         !.pc = IF proc[Watchdog].ctx THEN "unlock_contexts" ELSE "idle",
                         !.held = 0, !.seen = 0])
    /\ UNCHANGED <<nodes, hosts, contexts, balancers, workers, version, last, call, mconf>>

\* the watchdog takes the context lock, while it does not hold the node
\* lock, for work on the contexts alone
watch_lock_contexts ==
    /\ proc[Watchdog].pc = "idle"
    /\ CanLock(mutex.context)
    /\ mutex' = [mutex EXCEPT !.context = @ - 1]
    /\ Goto(Watchdog, [NoProc EXCEPT !.pc = "contexts", !.ctx = TRUE])
    /\ UNCHANGED <<nodes, hosts, contexts, balancers, workers, version, last, call, mconf>>

\* the watchdog that asks for the node lock while it has the context lock
after_contexts_locknodes == "wait_nodes"

\* where the watchdog goes on after its work on the contexts: to the unlock
after_contexts == "unlock_contexts"

watch_contexts ==
    /\ proc[Watchdog].pc = "contexts"
    /\ Goto(Watchdog, [proc[Watchdog] EXCEPT !.pc = after_contexts])
    /\ UNCHANGED <<nodes, hosts, contexts, balancers, workers, version, last, call, mconf, mutex>>

watch_unlock_contexts ==
    /\ proc[Watchdog].pc = "unlock_contexts"
    /\ mutex' = [mutex EXCEPT !.context = @ + 1]
    /\ Goto(Watchdog, NoProc)
    /\ UNCHANGED <<nodes, hosts, contexts, balancers, workers, version, last, call, mconf>>

\* the first handler gets the CONFIG requests, the second one the verbs
CONFIG_recv == \E req \in LockConfigRequests : recv(1, "CONFIG", req, FALSE)
ENABLE_recv == recv(2, "ENABLE-APP", LockApplRequest, FALSE)
REMOVE_recv == recv(2, "REMOVE-APP", LockNodeRequest, TRUE)

\* the steps of a handler that has a request
HandlerSteps ==
    \/ \E p \in Handlers : lock_nodes(p)
    \/ \E p \in Handlers : config_step(p)
    \/ \E p \in Handlers : vhosts_step(p)
    \/ \E p \in Handlers : \E post \in BOOLEAN : fail_unlock(p, post)
    \/ \E p \in Handlers : fail_mark(p)
    \/ \E p \in Handlers : appl_step(p)
    \/ \E p \in Handlers : apply_step(p)
    \/ \E p \in Handlers : \E post \in BOOLEAN : unlock_return(p, post)

\* the steps of the watchdog under the node lock
WatchSteps ==
    \/ watch_lock
    \/ watch_need_update
    \/ watch_read
    \/ watch_unlock

NextLocks ==
    \/ CONFIG_recv
    \/ ENABLE_recv
    \/ REMOVE_recv
    \/ HandlerSteps
    \/ WatchSteps

SpecLocks == Init /\ [][NextLocks]_vars

\* one node that registers, enables a context and is removed, next to the
\* watchdog that also works on the contexts alone
CONFIG_order ==
    recv(1, "CONFIG",
         ParseRequest("CONFIG", Body(<<<<sJVMRoute, sN1>>, <<sHost, sH1>>,
                                       <<sAlias, sA2>>, <<sContext, sC2>>>>), "null"),
         FALSE)

\* STATUS and PING with the JVMRoute of n1 arrive at an idle handler; the
\* parse loop leaves the route in nodeinfo
probe_recv(p, method) ==
    /\ proc[p].pc = "idle"
    /\ version < MaxVersion
    /\ Goto(p, [NoProc EXCEPT !.pc = "lock", !.method = method,
                              !.P = [resp |-> Resp(NoError, 0), JVMRoute |-> sN1]])
    /\ UNCHANGED <<nodes, hosts, contexts, balancers, workers, version, last, call, mconf, mutex>>

\* process_status and process_ping under the node lock: read_node
probe_step(p) ==
    /\ proc[p].pc = "probe"
    /\ Goto(p, [proc[p] EXCEPT !.pc = "ret",
                               !.resp = IF find_node(Tables, proc[p].P.JVMRoute) = 0
                                        THEN Resp("MNODERD", TYPEMEM) ELSE Resp(NoError, 0)])
    /\ UNCHANGED <<nodes, hosts, contexts, balancers, workers, version, last, call, mconf, mutex>>

STATUS_recv == probe_recv(2, "STATUS")
PING_recv == probe_recv(2, "PING")

\* what a handler does between the lock and the return
Run(p) ==
    \/ config_step(p)
    \/ vhosts_step(p)
    \/ \E post \in BOOLEAN : fail_unlock(p, post)
    \/ fail_mark(p)
    \/ appl_step(p)
    \/ apply_step(p)
    \/ probe_step(p)
    \/ \E post \in BOOLEAN : unlock_return(p, post)

NextLive ==
    \/ CONFIG_order
    \/ REMOVE_recv
    \/ HandlerSteps
    \/ WatchSteps
    \/ STATUS_recv
    \/ PING_recv
    \/ \E p \in Handlers : probe_step(p)

\* A process that can take a step takes one (no request is cancelled, and
\* the watchdog goes on to its unlock), and the mutex is fair: a process
\* that waits for it while it is released again and again gets it.
SpecLive ==
    /\ Init /\ [][NextLive]_vars
    /\ \A p \in Handlers : WF_vars(Run(p)) /\ SF_vars(lock_nodes(p))
    /\ WF_vars(watch_need_update \/ watch_read \/ watch_unlock)

(***************************************************************************)
(* manager_handler reads the body of an MCMP request into its buffer.      *)
(***************************************************************************)
MAXMESSSIZE == 1024
DEFMAXCONTEXT == 100
DEFMAXHOST == 20
\* the sizes of the fields of mod_clustersize.h, as this model takes them
JVMROUTESZ == 64
HOSTALIASZ == 255
CONTEXTSZ == 80
\* the bytes of a bucket that holds less than what is asked for
ChunkSize == 512

\* the size of the buffer: MaxMCMPMessSize when it is set, else calculated
\* from Maxhost and Maxcontext, and MAXMESSSIZE at least
maxbufsiz_of(maxmesssize, maxhost, maxcontext) ==
    LET m == IF maxmesssize # 0 THEN maxmesssize
             ELSE 9 + JVMROUTESZ + (maxhost * HOSTALIASZ) + 7 + (maxcontext * CONTEXTSZ) + 8
    IN  IF m < MAXMESSSIZE THEN MAXMESSSIZE ELSE m

\* MaxMCMPMessSize (0: not set; cmd_manager_maxmesssize refuses less than
\* MAXMESSSIZE), Maxhost and Maxcontext of the configurations of the model
BodyConfigs ==
    {<<0, 1, 1>>, <<0, DEFMAXHOST, DEFMAXCONTEXT>>,
     <<MAXMESSSIZE, DEFMAXHOST, DEFMAXCONTEXT>>, <<MAXMESSSIZE + 1, DEFMAXHOST, DEFMAXCONTEXT>>,
     <<3 * MAXMESSSIZE, DEFMAXHOST, DEFMAXCONTEXT>>}

\* the lengths of the bodies sent to a buffer of m bytes
BodyLengths(m) == {0, 1, ChunkSize, m - 1, m, m + 1, 2 * m}

\* manager_handler allocates buff and asks for maxbufsiz bytes; arg holds
\* maxbufsiz, the bytes of the body not read yet, bufsiz and len
read_body_start ==
    /\ call.fn # "manager_handler" \/ call.done
    /\ \E c \in BodyConfigs :
           \E m \in {maxbufsiz_of(c[1], c[2], c[3])} :
               \E n \in BodyLengths(m) :
                   call' = [fn |-> "manager_handler",
                            arg |-> [maxbufsiz |-> m, body |-> n, bufsiz |-> 0, len |-> m],
                            done |-> FALSE, ret |-> [status |-> 0, nul |-> -1]]
    /\ UNCHANGED <<nodes, hosts, contexts, balancers, workers, version, last, mconf, proc, mutex>>

\* what ap_get_brigade (AP_MODE_READBYTES, len) and apr_brigade_flatten can
\* give when avail bytes can be had: all of them or one bucket, nothing at
\* the end of the body
Chunks(avail) ==
    IF avail = 0 THEN {0}
    ELSE {avail} \cup (IF ChunkSize < avail THEN {ChunkSize} ELSE {})

\* one turn of the while loop with status APR_SUCCESS; when the loop ends
\* buff[bufsiz] = '\0' is written, ret.nul is its index
ap_get_brigade ==
    /\ call.fn = "manager_handler" /\ ~call.done
    /\ \E k \in Chunks(IF call.arg.len < call.arg.body THEN call.arg.len ELSE call.arg.body) :
           \E bufsiz \in {call.arg.bufsiz + k} :
               call' = IF bufsiz >= call.arg.maxbufsiz \/ k = 0
                       THEN [call EXCEPT !.arg.bufsiz = bufsiz, !.arg.body = @ - k,
                                         !.done = TRUE, !.ret = [status |-> 200, nul |-> bufsiz]]
                       ELSE [call EXCEPT !.arg.bufsiz = bufsiz, !.arg.body = @ - k,
                                         !.arg.len = call.arg.maxbufsiz - bufsiz]
    /\ UNCHANGED <<nodes, hosts, contexts, balancers, workers, version, last, mconf, proc, mutex>>

\* ap_get_brigade returns an error: SREADER, 500, nothing is written
ap_get_brigade_fails ==
    /\ call.fn = "manager_handler" /\ ~call.done
    /\ call' = [call EXCEPT !.done = TRUE, !.ret = [status |-> 500, nul |-> -1]]
    /\ UNCHANGED <<nodes, hosts, contexts, balancers, workers, version, last, mconf, proc, mutex>>

NextBody == read_body_start \/ ap_get_brigade \/ ap_get_brigade_fails

SpecBody == Init /\ [][NextBody]_vars

(***************************************************************************)
(* The version counter over all its values: the tables change, the proxy   *)
(* asks whether they did and records the version it has read.              *)
(***************************************************************************)
\* a request changes the tables: inc_version_node on the counter, which
\* wraps at its width
tables_change ==
    /\ version' = inc_version_node(Tables).version % (2 ^ CounterBits)
    /\ UNCHANGED <<nodes, hosts, contexts, balancers, workers, last, call, mconf, proc, mutex>>

\* the proxy calls worker_nodes_need_update
worker_nodes_need_update ==
    /\ call' = [fn |-> "worker_nodes_need_update", arg |-> <<>>, done |-> TRUE,
                ret |-> loc_worker_nodes_need_update]
    /\ UNCHANGED <<nodes, hosts, contexts, balancers, workers, version, last, mconf, proc, mutex>>

\* the proxy has updated its workers and calls worker_nodes_are_updated
\* with the value worker_nodes_need_update gave it
worker_nodes_are_updated ==
    /\ call.fn = "worker_nodes_need_update" /\ call.ret # 0
    /\ mconf' = [mconf EXCEPT !.tableversion = call.ret]
    /\ call' = [fn |-> "worker_nodes_are_updated", arg |-> <<call.ret>>, done |-> TRUE, ret |-> 0]
    /\ UNCHANGED <<nodes, hosts, contexts, balancers, workers, version, last, proc, mutex>>

NextVersion == tables_change \/ worker_nodes_need_update \/ worker_nodes_are_updated

SpecVersion == Init /\ [][NextVersion]_vars

NextLockOrder ==
    \/ CONFIG_order
    \/ ENABLE_recv
    \/ REMOVE_recv
    \/ HandlerSteps
    \/ WatchSteps
    \/ watch_lock_contexts
    \/ watch_contexts
    \/ watch_unlock_contexts

SpecLockOrder == Init /\ [][NextLockOrder]_vars

(***************************************************************************)
(* The properties of the registry.                                         *)
(***************************************************************************)
\* the node slots in use that are not marked removed
LiveNodes == {i \in NodeIds : nodes[i].used /\ nodes[i].remove = 0}

\* C1: in every reachable state no two used node slots that are not marked
\* removed hold the same JVMRoute.
C1_UniqueJVMRoute ==
    \A i, j \in LiveNodes : i # j => nodes[i].JVMRoute # nodes[j].JVMRoute

\* two live nodes, the second one just registered by a CONFIG
C1_Witness ==
    /\ last.method = "CONFIG" /\ last.status = 200
    /\ \E i, j \in LiveNodes : i # j /\ nodes[j].JVMRoute = last.route

\* the fields that identify the worker of a node
WorkerTuple(n) == <<n.balancer, n.Type, n.Host, n.Port, n.reversed, n.smax, n.ttl>>

\* C2: in every reachable state no two live node rows with different
\* JVMRoutes have the same (balancer, Type, Host, Port, reversed, smax, ttl).
C2_UniqueWorker ==
    \A i, j \in LiveNodes :
        (i # j /\ nodes[i].JVMRoute # nodes[j].JVMRoute)
            => WorkerTuple(nodes[i]) # WorkerTuple(nodes[j])

\* a CONFIG for the worker of a live node under another JVMRoute was refused
C2_Witness ==
    /\ last.method = "CONFIG" /\ last.Mess = "MNODEET"
    /\ \E i \in LiveNodes : nodes[i].JVMRoute # last.route

\* a request the parser and the parse loop of CONFIG accepted
ConfigAccepted(req) == req.parsed /\ req.P.resp.mess = NoError

\* the step is the answer to a request of the method
Answered(method) == last'.method = method

BalancerFits(req) ==
    \/ req.P.nodeinfo.balancer \in balancers
    \/ Cardinality(balancers) < MaxBalancer

\* the CONFIG of req finds in slot i the JVMRoute of the message with other
\* worker fields
ConfigOnChangedNode(req, i) ==
    /\ Answered("CONFIG")
    /\ ConfigAccepted(req)
    /\ nodes[i].used
    /\ nodes[i].JVMRoute = req.P.nodeinfo.JVMRoute
    /\ WorkerTuple(nodes[i]) # WorkerTuple(req.P.nodeinfo)
    /\ ConfigRequest(req)

\* the row is a tombstone without hosts and contexts, the version went up
\* and the answer is a MEM error
Tombstoned(i) ==
    /\ nodes'[i].JVMRoute = sREMOVED
    /\ nodes'[i].remove # 0
    /\ \A h \in HostIds : ~(hosts'[h].used /\ hosts'[h].node = i)
    /\ \A c \in ContextIds : ~(contexts'[c].used /\ contexts'[c].node = i)
    /\ version' > version
    /\ last'.status = 500 /\ last'.Type = "MEM"

\* C4 as stated: a CONFIG that names the JVMRoute of a node whose worker
\* fields differ from the message leaves that row with the JVMRoute
\* "REMOVED" and the removed flag set, leaves no host and no context of that
\* node, increases the version and is answered with a MEM error.
C4_ChangedNodeAlwaysTombstoned ==
    [][\A req \in ConfigRequests : \A i \in NodeIds :
           ConfigOnChangedNode(req, i) => Tombstoned(i)]_vars

\* C4 amended: the same, for a CONFIG whose balancer is in the balancer
\* table or fits in it; a CONFIG whose balancer does not fit is answered
\* with a MEM error and changes no row and not the version.
C4_ChangedNodeTombstoned ==
    [][\A req \in ConfigRequests : \A i \in NodeIds :
           ConfigOnChangedNode(req, i)
           => IF BalancerFits(req) THEN Tombstoned(i)
              ELSE /\ last'.status = 500 /\ last'.Type = "MEM"
                   /\ UNCHANGED <<nodes, hosts, contexts, balancers, version>>]_vars

\* a CONFIG was answered MNODERM and left a tombstone
C4_Witness ==
    /\ last.method = "CONFIG" /\ last.Mess = "MNODERM" /\ last.Type = "MEM"
    /\ \E i \in NodeIds : /\ last.was[i] = last.route
                           /\ nodes[i].used /\ nodes[i].JVMRoute = sREMOVED
                           /\ nodes[i].remove # 0

\* the CONFIG of req finds slot i a tombstone at the Host and Port of the
\* message, and no row with the JVMRoute of the message
ConfigOnTombstone(req, i) ==
    /\ Answered("CONFIG")
    /\ ConfigAccepted(req)
    /\ nodes[i].used /\ nodes[i].JVMRoute = sREMOVED /\ nodes[i].remove # 0
    /\ nodes[i].Host = req.P.nodeinfo.Host
    /\ nodes[i].Port = req.P.nodeinfo.Port
    /\ \A j \in NodeIds : ~(nodes[j].used /\ nodes[j].JVMRoute = req.P.nodeinfo.JVMRoute)
    /\ ConfigRequest(req)

C6_NodeTableFull ==
    [][\A req \in ConfigRequests :
           (/\ Answered("CONFIG")
            /\ ConfigAccepted(req)
            /\ \A i \in NodeIds : /\ nodes[i].used
                                   /\ nodes[i].JVMRoute # req.P.nodeinfo.JVMRoute
                                   /\ ~(/\ nodes[i].Host = req.P.nodeinfo.Host
                                        /\ nodes[i].Port = req.P.nodeinfo.Port)
            /\ ConfigRequest(req))
           => (/\ last'.status = 500 /\ last'.Type = "MEM"
               /\ UNCHANGED <<nodes, hosts, contexts, version>>)]_vars

\* a CONFIG for a new JVMRoute found every slot taken and was answered MEM
C6_Witness ==
    /\ last.method = "CONFIG" /\ last.Mess = "MNODEUI" /\ last.Type = "MEM"
    /\ \A i \in NodeIds : nodes[i].used /\ last.was[i] = nodes[i].JVMRoute
                           /\ last.was[i] # last.route

\* C7: a CONFIG that finds the host or the context table full for one of its
\* Alias/Context pairs is answered with an error and leaves no node, host
\* or context row changed.
C7_NoPartialConfig ==
    [][(Answered("CONFIG") /\ last'.Mess \in {"MHOSTUI", "MCONTUI"})
           => (last'.status = 500 /\ UNCHANGED <<nodes, hosts, contexts>>)]_vars

\* C8: a CONFIG that fails because a host alias or a context cannot be
\* inserted is answered with Type: MEM.
C8_TableFullIsMem ==
    (last.method = "CONFIG" /\ last.Mess \in {"MHOSTUI", "MCONTUI"}) => last.Type = "MEM"

\* the characters decodeenc refuses: < > " ' CR LF
ForbiddenChars == {60, 62, 34, 39, 13, 10}

\* the token holds a forbidden character once its %xx escapes are decoded
RECURSIVE TokenForbidden(_, _)
TokenForbidden(tok, i) ==
    IF i > Len(tok) THEN FALSE
    ELSE LET esc == /\ tok[i] = chPct
                    /\ apr_isxdigit(CharAt(tok, i + 1))
                    /\ apr_isxdigit(CharAt(tok, i + 2))
             ch == IF esc THEN mod_manager_hex2c(<<tok[i + 1], tok[i + 2]>>) % 256 ELSE tok[i]
         IN  ch \in ForbiddenChars \/ TokenForbidden(tok, IF esc THEN i + 3 ELSE i + 1)

\* the keys and values of a body, at every position
TokensOf(buff) == splitBuff(buff, <<>>, <<>>)

\* the CONFIG requests with a forbidden character in some key or value
ForbiddenRequests ==
    {req \in ConfigRequests :
        \E k \in 1..Len(TokensOf(req.raw)) : TokenForbidden(TokensOf(req.raw)[k], 1)}

\* C9: a request with a key or a value, at any position of the body, that
\* holds one of < > " ' CR LF after decoding is answered with a SYNTAX
\* error and changes no table and not the version.
C9_ForbiddenCharRejected ==
    [][\A req \in ForbiddenRequests :
           (Answered("CONFIG") /\ ConfigRequest(req))
           => (/\ last'.status = 500 /\ last'.Type = "SYNTAX"
               /\ UNCHANGED <<nodes, hosts, contexts, balancers, version>>)]_vars

\* an empty body, a body that ends in an empty pair, a body whose last key
\* has no value
Unpaired(buff) ==
    \/ buff = <<>>
    \/ buff[Len(buff)] = chAmp
    \/ Len(TokensOf(buff)) % 2 = 1

\* the CONFIG requests with such a body
UnpairedRequests == {req \in ConfigRequests : Unpaired(req.raw)}

\* C10: an empty body, a trailing empty pair and a final key without a value
\* are answered with a SYNTAX error, and every body process_buff accepts
\* has an even number of tokens.
C10_ParserYieldsPairs ==
    [][\A req \in ConfigRequests :
           (Answered("CONFIG") /\ ConfigRequest(req))
           => (/\ req \in UnpairedRequests => (last'.status = 500 /\ last'.Type = "SYNTAX")
               /\ req.parsed => req.ntok % 2 = 0)]_vars

\* the byte sequence holds none of the characters decodeenc refuses
NoReserved(B) == \A i \in 1..Len(B) : B[i] \notin ForbiddenChars

\* C11: for every byte sequence B without a reserved character, decodeenc on
\* the percent-encoding of B succeeds and leaves exactly B in the token
C11_RoundTrip ==
    (call.fn = "decodeenc" /\ call.done /\ NoReserved(call.arg))
        => (call.ret.ok /\ call.ret.ptr[1] = call.arg)

\* the round trip of the byte sequences without a NUL
RoundTripWithoutNul ==
    (call.fn = "decodeenc" /\ call.done /\ NoReserved(call.arg)
        /\ \A i \in 1..Len(call.arg) : call.arg[i] # 0)
        => (call.ret.ok /\ call.ret.ptr[1] = call.arg)

\* a request the parser and the parse loop of the *-APP commands accepted
ApplAccepted(req) == req.parsed /\ req.P.resp.mess = NoError

\* the step is a REMOVE-APP in node scope for the JVMRoute of slot n that
\* is answered with success
NodeRemoved(req, n) ==
    /\ Answered("REMOVE-APP")
    /\ ApplAccepted(req)
    /\ nodes[n].used /\ nodes[n].JVMRoute = req.P.JVMRoute
    /\ ApplStep("REMOVE-APP", req, TRUE)
    /\ last'.status = 200

NodeGone(req) ==
    \A i \in NodeIds :
        (nodes[i].used /\ nodes[i].JVMRoute = req.P.JVMRoute) => nodes[i].remove # 0

\* C14: a REMOVE-APP, in context or node scope, for a JVMRoute that no row
\* holds or whose row is marked removed is answered with success and leaves
\* every table and the version as they were; and in every reachable state a
\* second REMOVE-APP in node scope leaves the tables the first one left.
C14_RemoveIdempotent ==
    /\ [][\A global \in BOOLEAN :
             \A req \in (IF global THEN NodeRequests ELSE ApplRequests) :
                 (/\ Answered("REMOVE-APP")
                  /\ ApplAccepted(req)
                  /\ NodeGone(req)
                  /\ ApplStep("REMOVE-APP", req, global))
                 => (/\ last'.status = 200
                     /\ UNCHANGED <<nodes, hosts, contexts, balancers, workers,
                                    version>>)]_vars
    /\ [](\A req \in NodeRequests :
              ApplAccepted(req)
              => LET once == manager_handler(Tables, "REMOVE-APP", req, TRUE).T
                 IN  manager_handler(once, "REMOVE-APP", req, TRUE).T = once)

\* a REMOVE-APP found the row of its JVMRoute marked removed and left the
\* version as it was
C14_Witness ==
    /\ last.method = "REMOVE-APP" /\ last.status = 200
    /\ version = last.wasversion
    /\ \E n \in NodeIds : /\ last.was[n] = last.route
                           /\ nodes[n].used /\ nodes[n].remove # 0

\* the status a verb gives to a context
StatusOf(method) ==
    CASE method = "ENABLE-APP" -> ENABLED_ST
      [] method = "DISABLE-APP" -> DISABLED
      [] method = "STOP-APP" -> STOPPED

\* the elements of a comma list
ListOf(str) == LET l == splitComma(str, <<>>, <<>>) IN {l[k] : k \in 1..Len(l)}

\* the vhost ids of the host rows of node n with the alias, in the table H
VhostsOf(H, n, alias) ==
    {H[h].vhost : h \in {x \in HostIds : H[x].used /\ H[x].node = n /\ H[x].host = alias}}

\* the table C has a row for the context on (n, v); with the status st
HasContext(C, n, v, ctx) ==
    \E c \in ContextIds : /\ C[c].used /\ C[c].node = n /\ C[c].vhost = v
                          /\ C[c].context = ctx
HasContextIn(C, n, v, ctx, st) ==
    \E c \in ContextIds : /\ C[c].used /\ C[c].node = n /\ C[c].vhost = v
                          /\ C[c].context = ctx /\ C[c].status = st

\* the step is the verb in context scope for the live node in slot n
ContextVerb(method, req, n) ==
    /\ Answered(method)
    /\ ApplAccepted(req)
    /\ nodes[n].used /\ nodes[n].remove = 0 /\ nodes[n].JVMRoute = req.P.JVMRoute
    /\ ApplStep(method, req, FALSE)

\* C15: for a live node, a successful ENABLE-APP, DISABLE-APP or STOP-APP in
\* context scope leaves every context of its Context list on the vhost of
\* its first Alias, with the status ENABLED, DISABLED or STOPPED; and the
\* request succeeds whenever all these contexts are on that vhost already,
\* whatever their status.
C15_VerbSetsStatus ==
    [][\A method \in {"ENABLE-APP", "DISABLE-APP", "STOP-APP"} :
         \A req \in ApplRequests : \A n \in NodeIds :
           ContextVerb(method, req, n)
           => /\ last'.status = 200
                 => \E v \in VhostsOf(hosts', n, FirstOf(req.P.host)) :
                        \A ctx \in ListOf(req.P.context) :
                            HasContextIn(contexts', n, v, ctx, StatusOf(method))
              /\ (\E v \in VhostsOf(hosts, n, FirstOf(req.P.host)) :
                      \A ctx \in ListOf(req.P.context) : HasContext(contexts, n, v, ctx))
                 => last'.status = 200]_vars

\* an ENABLE-APP with two contexts in its list found the node and left two
\* contexts ENABLED
C15_Witness ==
    /\ last.method = "ENABLE-APP" /\ last.status = 200
    /\ version > last.wasversion
    /\ \E c, d \in ContextIds : /\ c # d
                                 /\ contexts[c].used /\ contexts[c].status = ENABLED_ST
                                 /\ contexts[d].used /\ contexts[d].status = ENABLED_ST
                                 /\ contexts[c].node = contexts[d].node
                                 /\ contexts[c].vhost = contexts[d].vhost

\* the Alias and Context fields of the CONFIG come in pairs
Paired(req) ==
    \A k \in 1..Len(req.P.vhost) :
        req.P.vhost[k].host # NULL /\ req.P.vhost[k].context # NULL

\* the step is a successful CONFIG with Alias/Context pairs that leaves its
\* node in slot n
ConfigStored(req, n) ==
    /\ Answered("CONFIG")
    /\ ConfigAccepted(req)
    /\ Paired(req)
    /\ last'.status = 200
    /\ nodes'[n].used /\ nodes'[n].JVMRoute = req.P.nodeinfo.JVMRoute
    /\ ConfigRequest(req)

\* the contexts of the k-th pair are on vhost k of node n, STOPPED
ContextsStored(req, n, k) ==
    \A ctx \in ListOf(req.P.vhost[k].context) :
        HasContextIn(contexts', n, k, ctx, STOPPED)

LastPairOf(req, alias) ==
    CHOOSE k \in 1..Len(req.P.vhost) :
        /\ alias \in ListOf(req.P.vhost[k].host)
        /\ \A j \in (k + 1)..Len(req.P.vhost) : alias \notin ListOf(req.P.vhost[j].host)

VhostIds(n) == {hosts[h].vhost : h \in {x \in HostIds : hosts[x].used /\ hosts[x].node = n}}

\* C17: in every reachable state the vhost ids on the host rows of a node
\* are 1, ..., k for some k, without a gap.
C17_VhostIdsDense ==
    \A n \in NodeIds : VhostIds(n) # {} => VhostIds(n) = 1..Cardinality(VhostIds(n))

\* the host rows of (n, v) in the table H
HostRows(H, n, v) == {h \in HostIds : H[h].used /\ H[h].node = n /\ H[h].vhost = v}

\* C18: a REMOVE-APP in context scope for a live node removes the host rows
\* of the vhost of its first Alias if and only if it leaves no context row
\* on that vhost of the node; while a context is left there the host rows
\* stay, and the host rows outside that vhost stay in both cases.
C18_HostGoesWithLastContext ==
    [][\A req \in ApplRequests : \A n \in NodeIds :
           ContextVerb("REMOVE-APP", req, n)
           => \A v \in VhostsOf(hosts, n, FirstOf(req.P.host)) :
                  /\ \A h \in HostIds \ HostRows(hosts, n, v) : hosts'[h] = hosts[h]
                  /\ IF \E c \in ContextIds : /\ contexts'[c].used /\ contexts'[c].node = n
                                               /\ contexts'[c].vhost = v
                     THEN \A h \in HostRows(hosts, n, v) : hosts'[h] = hosts[h]
                     ELSE \A h \in HostRows(hosts, n, v) : ~hosts'[h].used]_vars

\* a REMOVE-APP took the last context and the host rows of vhost 1 of its
\* node, and left the context and the host row of vhost 2
C18_Witness ==
    /\ last.method = "REMOVE-APP" /\ last.status = 200
    /\ version > last.wasversion
    /\ \E n \in NodeIds :
           /\ nodes[n].used /\ nodes[n].remove = 0 /\ nodes[n].JVMRoute = last.route
           /\ HostRows(hosts, n, 1) = {}
           /\ HostRows(hosts, n, 2) # {}
           /\ \A c \in ContextIds :
                  (contexts[c].used /\ contexts[c].node = n) => contexts[c].vhost = 2
           /\ \E c \in ContextIds : contexts[c].used /\ contexts[c].node = n

\* the keys of a body: the tokens at the odd positions
KeysOf(buff) ==
    LET t == TokensOf(buff) IN [k \in 1..((Len(t) + 1) \div 2) |-> t[2 * k - 1]]

\* the Alias and Context keys of a body, in the order of the body
PairKeys(buff) ==
    SelectSeq(KeysOf(buff), LAMBDA key : KeyIs(key, sAlias) \/ KeyIs(key, sContext))

\* an Alias that no Context follows, or a Context that no Alias precedes
Mispaired(buff) ==
    LET K == PairKeys(buff)
    IN  \E j \in 1..Len(K) :
            \/ KeyIs(K[j], sAlias) /\ (j = Len(K) \/ ~KeyIs(K[j + 1], sContext))
            \/ KeyIs(K[j], sContext) /\ (j = 1 \/ ~KeyIs(K[j - 1], sAlias))

\* the answer is a SYNTAX error and no table and not the version changed
SyntaxErrorOnly ==
    /\ last'.status = 500 /\ last'.Type = "SYNTAX"
    /\ UNCHANGED <<nodes, hosts, contexts, balancers, workers, version>>

\* C19: a CONFIG whose body has an Alias that no Context follows, or a
\* Context that no Alias precedes, is answered with a SYNTAX error and
\* changes nothing.
C19_MispairedConfigRejected ==
    [][\A req \in PairingConfigRequests :
           (Answered("CONFIG") /\ Mispaired(req.raw) /\ ConfigRequest(req))
           => SyntaxErrorOnly]_vars

\* how many keys of the body are the name
NKeys(buff, name) ==
    Cardinality({k \in 1..Len(KeysOf(buff)) : KeyIs(KeysOf(buff)[k], name)})

\* a *-APP body without JVMRoute, with more than one Alias or Context, or
\* with one of Alias and Context and not the other
Misformed(buff) ==
    \/ NKeys(buff, sJVMRoute) = 0
    \/ NKeys(buff, sAlias) > 1
    \/ NKeys(buff, sContext) > 1
    \/ NKeys(buff, sAlias) > 0 /\ NKeys(buff, sContext) = 0
    \/ NKeys(buff, sContext) > 0 /\ NKeys(buff, sAlias) = 0

\* C20: an ENABLE-APP, DISABLE-APP, STOP-APP or REMOVE-APP whose body has no
\* JVMRoute, more than one Alias, more than one Context, an Alias without a
\* Context or a Context without an Alias is answered with a SYNTAX error
\* and changes no table and not the version.
C20_MisformedApplRejected ==
    [][\A method \in ApplVerbs : \A global \in BOOLEAN :
         \A req \in PairingApplRequests :
           (Answered(method) /\ Misformed(req.raw) /\ ApplStep(method, req, global))
           => SyntaxErrorOnly]_vars

\* the keys process_config, process_status and process_ping act on
KnownKeys(method) ==
    IF method = "CONFIG" THEN ConfigValueKeys \cup {sAlias, sContext}
    ELSE IF method = "STATUS" THEN {sJVMRoute, sLoad}
    ELSE {sJVMRoute, sScheme, sHost, sPort}

\* the body has a key the command does not know
HasUnknownKey(method, buff) ==
    \E k \in 1..Len(KeysOf(buff)) :
        /\ KeysOf(buff)[k] # <<>>
        /\ \A name \in KnownKeys(method) : ~KeyIs(KeysOf(buff)[k], name)

\* C21: a CONFIG, STATUS or PING whose body has a key the command does not
\* know is answered with a SYNTAX error.
C21_UnknownKeyRejected ==
    [][/\ \A req \in FieldConfigRequests :
             (Answered("CONFIG") /\ HasUnknownKey("CONFIG", req.raw) /\ ConfigRequest(req))
             => (last'.status = 500 /\ last'.Type = "SYNTAX")
       /\ \A method \in {"STATUS", "PING"} : \A buff \in ProbeBodies(method) :
           \A oob \in {"null", "wild"} :
             (Answered(method) /\ HasUnknownKey(method, buff) /\ ProbeStep(method, buff, oob))
             => (last'.status = 500 /\ last'.Type = "SYNTAX")]_vars

\* the same for STATUS and PING alone
ProbeUnknownKeyRejected ==
    [][\A method \in {"STATUS", "PING"} : \A buff \in ProbeBodies(method) :
         \A oob \in {"null", "wild"} :
           (Answered(method) /\ HasUnknownKey(method, buff) /\ ProbeStep(method, buff, oob))
           => (last'.status = 500 /\ last'.Type = "SYNTAX")]_vars

\* the query has no nonce, or a nonce that is not the one of the server
BadNonce(q) ==
    apr_table_get(q.params, sNonce) = NULL \/ apr_table_get(q.params, sNonce) # sUuid

\* C22: with CheckNonce on, a GET of the page whose query has no nonce or
\* another nonce than the server's changes no table and not the version,
\* whatever else the query holds.
C22_BadNonceChangesNothing ==
    [][\A q \in Queries :
          (Answered("GET") /\ mconf.nonce # 0 /\ BadNonce(q) /\ GET(q))
          => UNCHANGED <<nodes, hosts, contexts, balancers, workers, version>>]_vars

\* with CheckNonce and AllowCmd on, the page was asked to REMOVE-APP in node
\* scope a node that is registered, with another nonce than the server's
C22_Witness ==
    /\ mconf.nonce # 0 /\ mconf.allow_cmd # 0
    /\ call.fn = "manager_info" /\ ~call.arg.bad_args
    /\ apr_table_get(call.arg.params, sNonce) = sOther
    /\ apr_table_get(call.arg.params, sCmd) = sREMOVE_APP
    /\ apr_table_get(call.arg.params, sRange) = sNODE
    /\ \E n \in NodeIds : /\ nodes[n].used /\ nodes[n].remove = 0
                           /\ nodes[n].JVMRoute = apr_table_get(call.arg.params, sJVMRoute)

\* the slot of the live node with the route, 0 for none
LiveSlot(ns, r) ==
    LET m == {i \in NodeIds : ns[i].used /\ ns[i].remove = 0 /\ ns[i].JVMRoute = r}
    IN  IF m = {} THEN 0 ELSE MinOf(m)

\* the rows of context /c1 of the node in slot i that are ENABLED
EnabledRows(i) ==
    {k \in ContextIds : /\ contexts[k].used /\ contexts[k].node = i
                         /\ contexts[k].context = sC1 /\ contexts[k].status = ENABLED_ST}

\* no node is marked removed
NoneMarked == \A i \in NodeIds : nodes[i].used => nodes[i].remove = 0

\* C25: while no node is marked removed, the CONFIG of each of the two
\* nodes (same host, its own port, its own JVMRoute) is answered 200, leaves
\* the node live and leaves the other node live in its slot; the ENABLE-APP
\* of context /c1 of a live node is answered 200 and leaves the node a context
\* row of its own, the rows of the other node as they were.
C25_BothNodesRegister ==
    [][\A r \in Routes :
          /\ (Answered("CONFIG") /\ NoneMarked /\ FailoverStep("CONFIG", FailoverConfig(r), FALSE))
             => /\ last'.status = 200
                /\ LiveSlot(nodes', r) # 0
                /\ \A o \in Routes \ {r} : LiveSlot(nodes', o) = LiveSlot(nodes, o)
          /\ (Answered("ENABLE-APP") /\ NoneMarked /\ LiveSlot(nodes, r) # 0
                /\ FailoverStep("ENABLE-APP", FailoverAppl(r), FALSE))
             => /\ last'.status = 200
                /\ \E k \in ContextIds :
                       /\ contexts'[k].used /\ contexts'[k].node = LiveSlot(nodes, r)
                       /\ contexts'[k].context = sC1 /\ contexts'[k].status = ENABLED_ST
                /\ \A k \in ContextIds :
                       (contexts[k].used /\ contexts[k].node # LiveSlot(nodes, r))
                       => contexts'[k] = contexts[k]]_vars

\* both nodes are live, in two slots, each with an ENABLED row of /c1, and the
\* ENABLE-APP of the second one was just answered 200
C25_Witness ==
    /\ last.method = "ENABLE-APP" /\ last.status = 200
    /\ LiveSlot(nodes, sN1) # 0 /\ LiveSlot(nodes, sN2) # 0
    /\ LiveSlot(nodes, sN1) # LiveSlot(nodes, sN2)
    /\ nodes[LiveSlot(nodes, sN1)].Host = nodes[LiveSlot(nodes, sN2)].Host
    /\ nodes[LiveSlot(nodes, sN1)].Port # nodes[LiveSlot(nodes, sN2)].Port
    /\ EnabledRows(LiveSlot(nodes, sN1)) # {} /\ EnabledRows(LiveSlot(nodes, sN2)) # {}

\* every node the manager holds is marked removed: each registered node has
\* sent its REMOVE-APP in node scope and none has registered again
AllMarked == \A i \in NodeIds : nodes[i].used => nodes[i].remove # 0

\* the manager reports no node
NoNodeUsed == \A i \in NodeIds : ~nodes[i].used

\* C26: once every registered node has sent REMOVE-APP in node scope, and as
\* long as none registers again, the watchdog frees the slots and from some
\* time on the manager holds no node.
C26_StoppedNodesGoAway == (<>[]AllMarked) => (<>[]NoNodeUsed)

\* both nodes had registered and got their workers, both have sent REMOVE-APP
\* and the watchdog has freed the two slots
C26_Witness ==
    /\ NoNodeUsed
    /\ version >= 4
    /\ \A i \in NodeIds : workers[i].used
    /\ last.method = "none"

\* process p takes a step
Steps(p) == proc'[p] # proc[p]

\* process p has changes left to make to the node, host or context rows
PendingChange(p) ==
    \/ /\ proc[p].pc = "vhosts"
       /\ <<vhosts_out(p).T.nodes, vhosts_out(p).T.hosts, vhosts_out(p).T.contexts>>
              # <<nodes, hosts, contexts>>
    \/ /\ proc[p].pc = "apply"
       /\ <<apply_out(p).T.nodes, apply_out(p).T.hosts, apply_out(p).T.contexts>>
              # <<nodes, hosts, contexts>>

\* the watchdog reads the tables
WatchReads == proc[Watchdog].pc = "read" /\ proc'[Watchdog].pc = "unlock"

\* C23: when the watchdog reads the tables after worker_nodes_need_update
\* gave it version V, the request that raised the counter to V has made all
\* its changes to the node, host and context rows.
C23_ReaderSeesCommit ==
    [][WatchReads
       => \A p \in Handlers : ~(proc[p].bumped = proc[Watchdog].seen /\ PendingChange(p))]_vars

\* C24: a process that holds the context lock neither holds nor waits for
\* the node lock, so no two processes each hold one of the two locks and
\* wait for the other.
C24_NoReverseLockOrder ==
    \A p \in Procs : proc[p].ctx => (proc[p].held = 0 /\ proc[p].pc \notin {"lock", "wait_nodes"})

\* the watchdog holds the context lock while one handler holds the node lock
\* and the other one waits for it
C24_Witness ==
    /\ proc[Watchdog].ctx /\ mutex.context = 0 /\ mutex.node = 0
    /\ \E p, q \in Handlers : proc[p].held > 0 /\ proc[q].pc = "lock"

\* process p returns from its processor
Returns(p) == proc[p].pc = "ret" /\ proc'[p].pc = "idle"

\* C28: when CONFIG returns after the upsert of the node failed and the
\* request had rewritten the JVMRoute of a tombstone, that slot is a
\* tombstone again.
C28_FailedReuseRetombstones ==
    [][\A p \in Handlers :
          (Returns(p) /\ proc[p].resp.mess = "MNODEUI" /\ proc[p].reused # 0)
          => /\ nodes'[proc[p].reused].JVMRoute = sREMOVED
             /\ nodes'[proc[p].reused].remove # 0]_vars

\* C29: a step of a handler that changes a node, host or context row is
\* taken while the handler holds the node lock.
C29_WritesUnderNodeLock ==
    [][\A p \in Handlers :
          (Steps(p) /\ <<nodes, hosts, contexts>>' # <<nodes, hosts, contexts>>)
          => proc[p].held > 0]_vars

\* process p calls loc_unlock_nodes()
Unlocks(p) ==
    \/ proc[p].pc = "fail" /\ proc'[p].pc = "fail_mark"
    \/ Returns(p)

\* C30: a handler calls unlock on the node lock only while it holds it, and
\* when it returns it has released the lock as often as it has taken it.
C30_UnlockOncePerLock ==
    [][\A p \in Handlers : Unlocks(p) => (proc[p].held > 0 /\ proc'[p].held = 0)]_vars

ConfigOfNewRoute(req) ==
    /\ Answered("CONFIG")
    /\ ConfigAccepted(req)
    /\ \A j \in NodeIds : ~(nodes[j].used /\ nodes[j].JVMRoute = req.P.nodeinfo.JVMRoute)
    /\ ConfigRequest(req)
    /\ last'.status = 200

\* C32: a successful CONFIG for a JVMRoute that is not in the table leaves
\* every live node in its slot with its JVMRoute, and leaves the host and
\* context rows of that node as they were.
C32_ConfigKeepsLiveNodes ==
    [][\A req \in ConfigRequests : \A i \in NodeIds :
           (ConfigOfNewRoute(req) /\ i \in LiveNodes)
           => (/\ nodes'[i].used
               /\ nodes'[i].JVMRoute = nodes[i].JVMRoute
               /\ \A h \in HostIds : (hosts[h].used /\ hosts[h].node = i) => hosts'[h] = hosts[h]
               /\ \A c \in ContextIds :
                      (contexts[c].used /\ contexts[c].node = i) => contexts'[c] = contexts[c])]_vars

\* no host row and no context row carries the id of a node row whose
\* removed flag is set
RemovedNodesBare(N, H, C) ==
    \A i \in NodeIds :
        (N[i].used /\ N[i].remove # 0)
        => /\ \A h \in HostIds : ~(H[h].used /\ H[h].node = i)
           /\ \A c \in ContextIds : ~(C[c].used /\ C[c].node = i)

\* the step is an ENABLE-APP, DISABLE-APP or STOP-APP addressed to the
\* JVMRoute of a node row whose removed flag is set
VerbOnRemovedNode(method, req, global) ==
    /\ Answered(method)
    /\ ApplAccepted(req)
    /\ \E i \in NodeIds : /\ nodes[i].used /\ nodes[i].remove # 0
                           /\ nodes[i].JVMRoute = req.P.JVMRoute
    /\ Request(method, manager_handler(Tables, method, req, global))

\* the verbs on a removed node are refused with a MEM error and change no
\* table
RemovedNodeRefuses ==
    \A method \in {"ENABLE-APP", "DISABLE-APP", "STOP-APP"} : \A global \in BOOLEAN :
        \A req \in (IF global THEN NodeRequests ELSE ApplRequests) :
            VerbOnRemovedNode(method, req, global)
            => (/\ last'.status = 500 /\ last'.Type = "MEM"
                /\ UNCHANGED <<nodes, hosts, contexts, version>>)

C34_NoRemovedContextRow ==
    \A c \in ContextIds : contexts[c].used => contexts[c].status # REMOVE

\* a REMOVE-APP in context scope was answered 200 for a live node: of the
\* two contexts of the node one is left, the row of the other one is free
C34_Witness ==
    /\ last.method = "REMOVE-APP" /\ last.status = 200
    /\ version > last.wasversion
    /\ \E i \in LiveNodes :
          /\ nodes[i].JVMRoute = last.route
          /\ \E c \in ContextIds : contexts[c].used /\ contexts[c].node = i
          /\ \E c \in ContextIds : ~contexts[c].used

\* the step is the verb in context scope for the live node in slot n, with
\* a first Alias that is not a host of the node
VerbOnNewAlias(method, req, n) ==
    /\ Answered(method)
    /\ ApplAccepted(req)
    /\ nodes[n].used /\ nodes[n].remove = 0 /\ nodes[n].JVMRoute = req.P.JVMRoute
    /\ VhostsOf(hosts, n, FirstOf(req.P.host)) = {}
    /\ VhostStep(method, req)

\* the largest vhost id on the host rows of node n, 0 when it has none
MaxVhostId(n) ==
    LET used == {hosts[h].vhost : h \in {x \in HostIds : hosts[x].used /\ hosts[x].node = n}}
    IN  IF used = {} THEN 0 ELSE CHOOSE v \in used : \A w \in used : w <= v

\* C35: ENABLE-APP, DISABLE-APP or STOP-APP in context scope whose first
\* Alias is not a host of the node writes host rows only for the aliases of
\* its list, on that node, with the vhost id 1 + the largest vhost id of the
\* node (1 when the node has no host row); when it succeeds every alias of
\* the list has its row with that vhost id.
C35_NewVhostIsMaxPlusOne ==
    [][\A method \in {"ENABLE-APP", "DISABLE-APP", "STOP-APP"} :
          \A req \in VhostApplRequests : \A n \in NodeIds :
              VerbOnNewAlias(method, req, n)
              => /\ \A h \in HostIds :
                       hosts'[h] # hosts[h]
                       => /\ hosts'[h].used /\ hosts'[h].node = n
                          /\ hosts'[h].host \in ListOf(req.P.host)
                          /\ hosts'[h].vhost = MaxVhostId(n) + 1
                 /\ last'.status = 200
                    => \A a \in ListOf(req.P.host) :
                           VhostsOf(hosts', n, a) = {MaxVhostId(n) + 1}]_vars

\* a verb has made a host row with vhost id 3 on a node whose other host
\* row has vhost id 2
C35_Witness ==
    /\ last.method \in {"ENABLE-APP", "DISABLE-APP", "STOP-APP"} /\ last.status = 200
    /\ \E h, g \in HostIds : /\ hosts[h].used /\ hosts[h].vhost = 3
                              /\ hosts[g].used /\ hosts[g].vhost = 2
                              /\ hosts[g].node = hosts[h].node

\* C36: every alias stored in the host table is lowercase, whether CONFIG
\* or a *-APP verb stored it.
C36_AliasesLowercase ==
    \A h \in HostIds : hosts[h].used => hosts[h].host = LowerStr(hosts[h].host)

\* the half of C36 that holds: a *-APP verb writes lowercase aliases only
ApplAliasesLowercase ==
    [][\A h \in HostIds :
          (last'.method \in {"ENABLE-APP", "DISABLE-APP", "STOP-APP", "REMOVE-APP"}
              /\ hosts'[h] # hosts[h] /\ hosts'[h].used)
          => hosts'[h].host = LowerStr(hosts'[h].host)]_vars

\* the step is the page asked for cmd with Range=DOMAIN and Domain=d
DomainStep(cmd, d) ==
    /\ Answered("GET")
    /\ call'.arg = DomainQuery(cmd, d)
    /\ GET(DomainQuery(cmd, d))

\* the context row c is a row of a live node of the LB group d
InDomain(c, d) ==
    /\ contexts[c].node \in LiveNodes
    /\ nodes[contexts[c].node].Domain = d

\* the context row c is a row of a node (live or not) of another LB group
InOtherDomain(c, d) ==
    /\ contexts[c].node \in NodeIds
    /\ nodes[contexts[c].node].used
    /\ nodes[contexts[c].node].Domain # d

HasHostRow(c) ==
    \E h \in HostIds : /\ hosts[h].used /\ hosts[h].node = contexts[c].node
                        /\ hosts[h].vhost = contexts[c].vhost

\* what holds of the verb with Range=DOMAIN: the contexts that have a host
\* row get the status, the contexts of other LB groups are unchanged
DomainVerbReachesHostedContexts ==
    [][\A cmd \in {sENABLE_APP, sDISABLE_APP, sSTOP_APP} : \A d \in Domains :
          DomainStep(cmd, d)
          => \A c \in ContextIds :
                 contexts[c].used
                 => /\ (InDomain(c, d) /\ HasHostRow(c))
                       => contexts'[c] = [contexts[c] EXCEPT !.status = cmd_status(cmd)]
                    /\ InOtherDomain(c, d) => contexts'[c] = contexts[c]]_vars

ReportMethods == {"STATUS", "PING", "DUMP", "INFO", "VERSION"}

\* C38: STATUS, PING, DUMP, INFO and VERSION leave the node, host, context
\* and balancer tables and the version counter as they are, whether they are
\* answered 200 or with an error.
C38_ReportsChangeNothing ==
    [][last'.method \in ReportMethods
       => UNCHANGED <<nodes, hosts, contexts, balancers, version>>]_vars

\* a report was refused on tables that hold a node with a context, and
\* another one can be answered
C38_Witness ==
    /\ last.method \in ReportMethods /\ last.status = 500
    /\ \E c \in ContextIds : contexts[c].used /\ contexts[c].node \in LiveNodes
    /\ balancers # {}

\* C39: worker_nodes_need_update returns a non-zero value exactly when the
\* version counter is not the version recorded by worker_nodes_are_updated,
\* whatever the value of the counter.
C39_NeedUpdateIffDiffers ==
    [][(call'.fn = "worker_nodes_need_update" /\ UNCHANGED <<version, mconf>>)
       => (call'.ret # 0 <=> version # mconf.tableversion)]_vars

\* the half of C39 that holds: 0 is returned when the counter is the
\* recorded version
NeedUpdateZeroWhenEqual ==
    [][(call'.fn = "worker_nodes_need_update" /\ UNCHANGED <<version, mconf>>
           /\ version = mconf.tableversion)
       => call'.ret = 0]_vars

\* C40: when manager_handler has read the body, bufsiz is below the size of
\* the buffer, so that the NUL written at buff[bufsiz] is inside the buffer
\* of maxbufsiz bytes, whatever the length of the body and the configured
\* size.
C40_NulInsideBuffer ==
    (call.fn = "manager_handler" /\ call.done /\ call.ret.status = 200)
    => call.ret.nul < call.arg.maxbufsiz

\* what holds of the read: the bytes stored never exceed the buffer, and
\* the NUL is at most one byte past its end
BodyWithinBuffer ==
    call.fn = "manager_handler"
    => /\ call.arg.bufsiz <= call.arg.maxbufsiz
       /\ call.ret.nul <= call.arg.maxbufsiz

====
